---- MODULE Spec2Model ----
(***************************************************************************)
(* Alpha-Dashboard: the project-detail API handler, the project-list API   *)
(* handler and the computations of the project detail page.                *)
(*                                                                         *)
(* A JavaScript number is modelled as an exact rational <<n, d>> (d > 0,   *)
(* lowest terms); null is the empty tuple and undefined a one-element      *)
(* tuple, so that every value of the program compares with every other.    *)
(***************************************************************************)
EXTENDS Integers, Sequences, FiniteSets, TLC

\* ------------------------------------------------------------------ numbers

NULL == <<>>
UNDEFINED == <<"undefined">>

Abs(n) == IF n < 0 THEN -n ELSE n

RECURSIVE GCD(_, _)
GCD(a, b) == IF b = 0 THEN a ELSE GCD(b, a % b)

\* n/d in lowest terms, d > 0
Norm(n, d) ==
    LET g == GCD(Abs(n), d)
    IN  <<n \div g, d \div g>>

R(n) == <<n, 1>>
IsNum(x) == Len(x) = 2
\* of a value that is null or an object
IsNull(x) == DOMAIN x = {}

RAdd(a, b) == Norm(a[1] * b[2] + b[1] * a[2], a[2] * b[2])
RSub(a, b) == Norm(a[1] * b[2] - b[1] * a[2], a[2] * b[2])
RMul(a, b) == Norm(a[1] * b[1], a[2] * b[2])
\* a / b for b # 0 (the code guards every division by a test of the divisor)
RDiv(a, b) ==
    IF b[1] > 0 THEN Norm(a[1] * b[2], a[2] * b[1])
                ELSE Norm(-(a[1] * b[2]), -(a[2] * b[1]))
RNeg(a) == <<-a[1], a[2]>>
RLt(a, b) == a[1] * b[2] < b[1] * a[2]
RLe(a, b) == a[1] * b[2] <= b[1] * a[2]
RMin(a, b) == IF RLt(b, a) THEN b ELSE a
RMax(a, b) == IF RLt(a, b) THEN b ELSE a
RCeil(a) == R(-((-a[1]) \div a[2]))

\* parseFloat(x.toFixed(2)): x rounded to two decimals
ToFixed2(x) == Norm((x[1] * 200 + x[2]) \div (2 * x[2]), 100)

\* x || 0
OrZero(x) == IF IsNum(x) /\ x # R(0) THEN x ELSE R(0)
\* x && x > 0
TruthyPositive(x) == IsNum(x) /\ RLt(R(0), x)

\* ------------------------------------------------------------------- inputs

MaxRecords == 2

Dates == {1, 2}
FilledQtyValues == {R(0), R(1)}
FilledAveragePriceValues == {NULL, R(0), R(2)}
AllDayVwapValues == {NULL, R(0), R(3)}
Sides == {"BUY", "SELL"}

\* rows of stock_records
RawRecords ==
    [Date : Dates, FilledQty : FilledQtyValues,
     FilledAveragePrice : FilledAveragePriceValues, ALL_DAY_VWAP : AllDayVwapValues]

\* ORDER BY Date ASC
DateOrdered(recs) == \A i \in 1..(Len(recs) - 1) : recs[i].Date <= recs[i + 1].Date

RecordLists ==
    {recs \in UNION {[1..n -> RawRecords] : n \in 0..MaxRecords} : DateOrdered(recs)}

\* rows of projects: targets, horizon and fee rate of one working order
ProjectTargets ==
    { [Total_Shares |-> NULL, Total_Amount |-> NULL, Business_Days |-> NULL,
       Performance_Based_Fee_Rate |-> NULL, Fixed_Fee_Rate |-> NULL,
       Ticker |-> "", Earliest_Day_Count |-> NULL],
      [Total_Shares |-> R(1), Total_Amount |-> R(2), Business_Days |-> R(1),
       Performance_Based_Fee_Rate |-> R(10), Fixed_Fee_Rate |-> R(50),
       Ticker |-> "7203", Earliest_Day_Count |-> R(1)],
      [Total_Shares |-> NULL, Total_Amount |-> R(2), Business_Days |-> R(0),
       Performance_Based_Fee_Rate |-> R(0), Fixed_Fee_Rate |-> R(0),
       Ticker |-> "7203", Earliest_Day_Count |-> R(3)] }

Projects ==
    { [ProjectID |-> "P1",
       Side |-> s, Total_Shares |-> t.Total_Shares, Total_Amount |-> t.Total_Amount,
       Business_Days |-> t.Business_Days,
       Performance_Based_Fee_Rate |-> t.Performance_Based_Fee_Rate,
       Fixed_Fee_Rate |-> t.Fixed_Fee_Rate, Ticker |-> t.Ticker,
       Earliest_Day_Count |-> t.Earliest_Day_Count] :
      s \in Sides, t \in ProjectTargets }

\* ------------------------------------- pages/api/projects/[projectID].ts

\* typeof x === 'number' ? x : null
NumberOrNull(x) == IF IsNum(x) THEN x ELSE NULL

\* the accumulators the handler declares before the map
InitialAccumulators ==
    [distinctDailyVWAPsEncountered |-> [day \in {} |-> NULL],
     sumOfDistinctVWAPsForBenchmark |-> R(0),
     countOfDistinctDaysForBenchmark |-> 0,
     currentCumulativeFilledAmount |-> R(0),
     currentCumulativeFilledQty |-> R(0)]


\* ObserveBenchmark without the has(recordDate) test
ObserveBenchmarkEveryRecord(acc, recordDate, recordAllDayVWAP) ==
    IF recordAllDayVWAP # NULL
    THEN [acc EXCEPT
            !.distinctDailyVWAPsEncountered =
                [day \in DOMAIN acc.distinctDailyVWAPsEncountered \cup {recordDate} |->
                    IF day = recordDate THEN recordAllDayVWAP
                    ELSE acc.distinctDailyVWAPsEncountered[day]],
            !.sumOfDistinctVWAPsForBenchmark = RAdd(@, recordAllDayVWAP),
            !.countOfDistinctDaysForBenchmark = @ + 1]
    ELSE acc

\* if (!distinctDailyVWAPsEncountered.has(recordDate) && recordAllDayVWAP !== null)
ObserveBenchmark(acc, recordDate, recordAllDayVWAP) ==
    IF recordDate \notin DOMAIN acc.distinctDailyVWAPsEncountered /\ recordAllDayVWAP # NULL
    THEN [acc EXCEPT
            !.distinctDailyVWAPsEncountered =
                [day \in DOMAIN acc.distinctDailyVWAPsEncountered \cup {recordDate} |->
                    IF day = recordDate THEN recordAllDayVWAP
                    ELSE acc.distinctDailyVWAPsEncountered[day]],
            !.sumOfDistinctVWAPsForBenchmark = RAdd(@, recordAllDayVWAP),
            !.countOfDistinctDaysForBenchmark = @ + 1]
    ELSE acc

\* CurrentBenchmarkVWAP with 0 in place of null
CurrentBenchmarkVWAPOrZero(acc) ==
    IF acc.countOfDistinctDaysForBenchmark > 0
    THEN RDiv(acc.sumOfDistinctVWAPsForBenchmark, R(acc.countOfDistinctDaysForBenchmark))
    ELSE R(0)

\* currentProjectBenchmarkVWAP
CurrentBenchmarkVWAP(acc) ==
    IF acc.countOfDistinctDaysForBenchmark > 0
    THEN RDiv(acc.sumOfDistinctVWAPsForBenchmark, R(acc.countOfDistinctDaysForBenchmark))
    ELSE NULL


\* VwapPerfBps with the BUY expression in both branches
VwapPerfBpsSameSign(side, recordFilledAveragePrice, recordAllDayVWAP) ==
    IF recordFilledAveragePrice # NULL /\ recordAllDayVWAP # NULL /\ recordAllDayVWAP # R(0)
    THEN IF side \in {"BUY", "SELL"}
         THEN RMul(RDiv(RSub(recordAllDayVWAP, recordFilledAveragePrice), recordAllDayVWAP),
                   R(10000))
         ELSE NULL
    ELSE NULL

VwapPerfBps(side, recordFilledAveragePrice, recordAllDayVWAP) ==
    IF recordFilledAveragePrice # NULL /\ recordAllDayVWAP # NULL /\ recordAllDayVWAP # R(0)
    THEN IF side = "BUY"
         THEN RMul(RDiv(RSub(recordAllDayVWAP, recordFilledAveragePrice), recordAllDayVWAP),
                   R(10000))
         ELSE IF side = "SELL"
         THEN RMul(RDiv(RSub(recordFilledAveragePrice, recordAllDayVWAP), recordAllDayVWAP),
                   R(10000))
         ELSE NULL
    ELSE NULL

DailyFilledAmount(recordFilledQty, recordFilledAveragePrice) ==
    IF recordFilledQty # NULL /\ recordFilledAveragePrice # NULL
    THEN RMul(recordFilledQty, recordFilledAveragePrice)
    ELSE R(0)


\* ObserveFill with = in place of +=
ObserveFillAssign(acc, recordFilledQty, recordFilledAveragePrice) ==
    [acc EXCEPT
        !.currentCumulativeFilledAmount =
            DailyFilledAmount(recordFilledQty, recordFilledAveragePrice),
        !.currentCumulativeFilledQty =
            IF recordFilledQty # NULL THEN recordFilledQty ELSE @]

\* currentCumulativeFilledAmount += dailyFilledAmount; currentCumulativeFilledQty += recordFilledQty
ObserveFill(acc, recordFilledQty, recordFilledAveragePrice) ==
    [acc EXCEPT
        !.currentCumulativeFilledAmount =
            RAdd(@, DailyFilledAmount(recordFilledQty, recordFilledAveragePrice)),
        !.currentCumulativeFilledQty =
            IF recordFilledQty # NULL THEN RAdd(@, recordFilledQty) ELSE @]


\* DailyPL with the BUY and SELL expressions exchanged
DailyPLExchanged(side, currentProjectBenchmarkVWAP, recordCumulativeFilledQty, recordCumulativeFilledAmount) ==
    IF /\ currentProjectBenchmarkVWAP # NULL
       /\ RLt(R(0), recordCumulativeFilledQty)
       /\ recordCumulativeFilledAmount # NULL
       /\ side \in {"BUY", "SELL"}
    THEN IF side = "SELL"
         THEN RSub(RMul(currentProjectBenchmarkVWAP, recordCumulativeFilledQty),
                   recordCumulativeFilledAmount)
         ELSE RSub(recordCumulativeFilledAmount,
                   RMul(currentProjectBenchmarkVWAP, recordCumulativeFilledQty))
    ELSE IF recordCumulativeFilledQty = R(0) THEN R(0)
    ELSE NULL

DailyPL(side, currentProjectBenchmarkVWAP, recordCumulativeFilledQty, recordCumulativeFilledAmount) ==
    IF /\ currentProjectBenchmarkVWAP # NULL
       /\ RLt(R(0), recordCumulativeFilledQty)
       /\ recordCumulativeFilledAmount # NULL
       /\ side \in {"BUY", "SELL"}
    THEN IF side = "BUY"
         THEN RSub(RMul(currentProjectBenchmarkVWAP, recordCumulativeFilledQty),
                   recordCumulativeFilledAmount)
         ELSE RSub(recordCumulativeFilledAmount,
                   RMul(currentProjectBenchmarkVWAP, recordCumulativeFilledQty))
    ELSE IF recordCumulativeFilledQty = R(0) THEN R(0)
    ELSE NULL

\* the accumulators after one call of the map callback
MapAccumulators(acc, rawRecord) ==
    ObserveFill(
        ObserveBenchmark(acc, rawRecord.Date, NumberOrNull(rawRecord.ALL_DAY_VWAP)),
        NumberOrNull(rawRecord.FilledQty), NumberOrNull(rawRecord.FilledAveragePrice))

\* the StockRecord one call of the map callback returns; acc is MapAccumulators
ProcessedRecord(projectData, acc, rawRecord) ==
    LET recordFilledQty == NumberOrNull(rawRecord.FilledQty)
        recordFilledAveragePrice == NumberOrNull(rawRecord.FilledAveragePrice)
        recordAllDayVWAP == NumberOrNull(rawRecord.ALL_DAY_VWAP)
        currentProjectBenchmarkVWAP == CurrentBenchmarkVWAP(acc)
    IN  [FilledQty |-> IF recordFilledQty # NULL THEN recordFilledQty ELSE R(0),
         FilledAveragePrice |->
            IF recordFilledAveragePrice # NULL THEN recordFilledAveragePrice ELSE R(0),
         ALL_DAY_VWAP |-> IF recordAllDayVWAP # NULL THEN recordAllDayVWAP ELSE R(0),
         Date |-> rawRecord.Date,
         cumulativeBenchmarkVWAP |-> currentProjectBenchmarkVWAP,
         vwapPerformanceBps |->
            VwapPerfBps(projectData.Side, recordFilledAveragePrice, recordAllDayVWAP),
         cumulativeFilledAmount |-> acc.currentCumulativeFilledAmount,
         cumulativeFilledQty |-> acc.currentCumulativeFilledQty,
         dailyPL |-> DailyPL(projectData.Side, currentProjectBenchmarkVWAP,
                             acc.currentCumulativeFilledQty,
                             acc.currentCumulativeFilledAmount)]

DaysProgress(projectData, currentTradedDaysCount) ==
    IF TruthyPositive(projectData.Business_Days)
    THEN RMin(R(100), RMax(R(0),
            RMul(RDiv(R(currentTradedDaysCount), projectData.Business_Days), R(100))))
    ELSE R(0)

ExecutionProgress(projectData, nRecords, finalTotalProjectFilledQty, finalTotalProjectFilledAmount) ==
    IF nRecords > 0
    THEN LET raw ==
                IF projectData.Side = "SELL" /\ TruthyPositive(projectData.Total_Shares)
                THEN RMul(RDiv(finalTotalProjectFilledQty, projectData.Total_Shares), R(100))
                ELSE IF projectData.Side = "BUY" /\ TruthyPositive(projectData.Total_Amount)
                THEN RMul(RDiv(finalTotalProjectFilledAmount, projectData.Total_Amount),
                          R(100))
                ELSE R(0)
         IN  RMin(R(100), RMax(R(0), raw))
    ELSE R(0)

\* projectWithProgressData
ProjectWithProgressData(projectData, acc, nRecords) ==
    LET finalTotalProjectFilledQty == acc.currentCumulativeFilledQty
        finalTotalProjectFilledAmount == acc.currentCumulativeFilledAmount
        currentTradedDaysCount == Cardinality(DOMAIN acc.distinctDailyVWAPsEncountered)
    IN  [ProjectID |-> projectData.ProjectID,
         Side |-> projectData.Side,
         Total_Shares |-> projectData.Total_Shares,
         Total_Amount |-> projectData.Total_Amount,
         Business_Days |-> projectData.Business_Days,
         Performance_Based_Fee_Rate |-> projectData.Performance_Based_Fee_Rate,
         Fixed_Fee_Rate |-> projectData.Fixed_Fee_Rate,
         Ticker |-> projectData.Ticker,
         Earliest_Day_Count |-> projectData.Earliest_Day_Count,
         daysProgress |-> ToFixed2(DaysProgress(projectData, currentTradedDaysCount)),
         executionProgress |->
            ToFixed2(ExecutionProgress(projectData, nRecords, finalTotalProjectFilledQty,
                                       finalTotalProjectFilledAmount)),
         totalFilledQty |-> finalTotalProjectFilledQty,
         totalFilledAmount |-> finalTotalProjectFilledAmount,
         tradedDaysCount |-> currentTradedDaysCount,
         benchmarkVWAP |-> CurrentBenchmarkVWAP(acc),
         averageExecutionPrice |->
            IF RLt(R(0), finalTotalProjectFilledQty)
            THEN RDiv(finalTotalProjectFilledAmount, finalTotalProjectFilledQty)
            ELSE NULL,
         averageDailyShares |->
            IF currentTradedDaysCount > 0
            THEN RDiv(finalTotalProjectFilledQty, R(currentTradedDaysCount))
            ELSE NULL]


\* ---------------------------------------------------- pages/api/projects.ts

\* SUM(x) of SQL over the non-null values of a column: null when there is none
RECURSIVE SqlSum(_)
SqlSum(values) ==
    IF values = <<>> THEN NULL
    ELSE LET rest == SqlSum(Tail(values))
         IN  IF Head(values) = NULL THEN rest
             ELSE IF rest = NULL THEN Head(values)
             ELSE RAdd(Head(values), rest)

\* FilledQty * FilledAveragePrice of SQL: null when either operand is
SqlProduct(a, b) == IF a = NULL \/ b = NULL THEN NULL ELSE RMul(a, b)

\* the rows of the GROUP BY query: one for the project, none when it has no record
AggregatedStockDataArray(records) ==
    IF records = <<>> THEN <<>>
    ELSE <<[totalFilledQty |-> SqlSum([i \in DOMAIN records |-> records[i].FilledQty]),
            totalFilledAmount |->
              SqlSum([i \in DOMAIN records |->
                          SqlProduct(records[i].FilledQty, records[i].FilledAveragePrice)]),
            tradedDaysCount |-> Cardinality({records[i].Date : i \in DOMAIN records})]>>

ListDaysProgress(p, currentTradedDaysCount) ==
    IF TruthyPositive(p.Business_Days)
    THEN RMin(R(100), RMul(RDiv(R(currentTradedDaysCount), p.Business_Days), R(100)))
    ELSE R(0)

\* rows holds projectStockData, or nothing when stockDataMap has no entry
ListExecutionProgress(p, rows) ==
    IF rows # <<>>
    THEN IF p.Side = "SELL" /\ TruthyPositive(p.Total_Shares)
         THEN RMul(RDiv(OrZero(rows[1].totalFilledQty), p.Total_Shares), R(100))
         ELSE IF p.Side = "BUY" /\ TruthyPositive(p.Total_Amount)
         THEN RMul(RDiv(OrZero(rows[1].totalFilledAmount), p.Total_Amount), R(100))
         ELSE R(0)
    ELSE R(0)

\* one element of projectsWithProgress
ProjectListEntry(p, rows) ==
    LET currentTradedDaysCount == IF rows # <<>> THEN rows[1].tradedDaysCount ELSE 0
    IN  [ProjectID |-> p.ProjectID,
         Side |-> p.Side,
         Total_Shares |-> p.Total_Shares,
         Total_Amount |-> p.Total_Amount,
         Business_Days |-> p.Business_Days,
         Performance_Based_Fee_Rate |-> p.Performance_Based_Fee_Rate,
         Fixed_Fee_Rate |-> p.Fixed_Fee_Rate,
         Ticker |-> p.Ticker,
         Earliest_Day_Count |-> p.Earliest_Day_Count,
         daysProgress |-> ToFixed2(ListDaysProgress(p, currentTradedDaysCount)),
         executionProgress |-> ToFixed2(ListExecutionProgress(p, rows)),
         totalFilledQty |->
            IF rows # <<>> /\ p.Side = "SELL" /\ TruthyPositive(p.Total_Shares)
            THEN OrZero(rows[1].totalFilledQty) ELSE UNDEFINED,
         totalFilledAmount |->
            IF rows # <<>>
               /\ ~(p.Side = "SELL" /\ TruthyPositive(p.Total_Shares))
               /\ p.Side = "BUY" /\ TruthyPositive(p.Total_Amount)
            THEN OrZero(rows[1].totalFilledAmount) ELSE UNDEFINED,
         tradedDaysCount |-> currentTradedDaysCount]

\* ------------------------------------------- pages/projects/[projectID].tsx

\* obj.field of JavaScript: undefined when the object has no such field
Field(obj, name) == IF name \in DOMAIN obj THEN obj[name] ELSE UNDEFINED

\* the FinalMetrics fetchProjectDetails stores
FinalMetricsOf(fetchedData) ==
    [pl |-> Field(fetchedData, "finalPL"),
     performanceFee |-> Field(fetchedData, "finalPerformanceFee"),
     fixedFee |-> Field(fetchedData, "finalFixedFee"),
     plBps |-> Field(fetchedData, "finalPLBps")]


\* PerformanceFeeAmount without the dailyPL > 0 test
PerformanceFeeAmountAnySign(dailyPL, feeRate) ==
    IF dailyPL # NULL /\ feeRate # NULL /\ feeRate # UNDEFINED
    THEN RMul(dailyPL, RDiv(feeRate, R(100)))
    ELSE R(0)

\* performanceFeeAmount of one row of the history table
PerformanceFeeAmount(dailyPL, feeRate) ==
    IF dailyPL # NULL /\ RLt(R(0), dailyPL) /\ feeRate # NULL /\ feeRate # UNDEFINED
    THEN RMul(dailyPL, RDiv(feeRate, R(100)))
    ELSE R(0)


\* a text input is the sequence of its characters
DigitChars == <<"0", "1", "2", "3", "4", "5", "6", "7", "8", "9">>
NaN == <<"NaN">>
IsDigit(c) == \E k \in 1..10 : DigitChars[k] = c
DigitValue(c) == (CHOOSE k \in 1..10 : DigitChars[k] = c) - 1

\* the value of the longest prefix of digits of str, after the digits of value n
RECURSIVE DigitsPrefix(_, _)
DigitsPrefix(str, n) ==
    IF str = <<>> \/ ~IsDigit(Head(str)) THEN n
    ELSE DigitsPrefix(Tail(str), 10 * n + DigitValue(Head(str)))

\* parseInt(str, 10): an optional sign and the leading digits, NaN without a digit
ParseInt(str) ==
    LET negative == str # <<>> /\ Head(str) = "-"
        digits == IF negative THEN Tail(str) ELSE str
    IN  IF digits = <<>> \/ ~IsDigit(Head(digits)) THEN NaN
        ELSE IF negative THEN R(-DigitsPrefix(digits, 0)) ELSE R(DigitsPrefix(digits, 0))

\* parseFloat(str), on inputs that carry no fraction and no exponent
ParseFloat(str) == ParseInt(str)

\* !isNaN(x) && x > 0
ValidPositive(x) == x # NaN /\ RLt(R(0), x)

CalculatePLInBasisPoints(pl, benchmark, totalShares) ==
    IF pl = NULL \/ benchmark = NULL \/ totalShares = NULL
       \/ benchmark = R(0) \/ totalShares = R(0)
    THEN NULL
    ELSE RMul(RDiv(pl, RMul(benchmark, totalShares)), R(10000))

CalculatePriceVsBenchmarkPct(price, benchmark) ==
    IF price = NULL \/ benchmark = NULL \/ benchmark = R(0) THEN NULL
    ELSE RMul(RSub(RDiv(price, benchmark), R(1)), R(100))

DashText == <<"-">>

\* formatNumber(value, 1, '-'): toLocaleString with one fraction digit, half away from zero
FormatNumber1(value) ==
    IF value = NULL \/ value = UNDEFINED THEN DashText
    ELSE <<"number/10", IF value[1] >= 0 THEN (20 * value[1] + value[2]) \div (2 * value[2])
                        ELSE -((20 * (-value[1]) + value[2]) \div (2 * value[2]))>>

\* PlBpsDisplay that shows 0.0 for a record without a positive benchmark and quantity
PlBpsDisplayZero(record) ==
    IF record.dailyPL = NULL THEN DashText
    ELSE IF /\ record.cumulativeBenchmarkVWAP # NULL
            /\ RLt(R(0), record.cumulativeBenchmarkVWAP)
            /\ record.cumulativeFilledQty # NULL
            /\ RLt(R(0), record.cumulativeFilledQty)
    THEN FormatNumber1(RMul(RDiv(record.dailyPL, RMul(record.cumulativeBenchmarkVWAP, record.cumulativeFilledQty)), R(10000)))
    ELSE FormatNumber1(R(0))

\* plBpsDisplay of one row of the records table
PlBpsDisplay(record) ==
    IF /\ record.dailyPL # NULL
       /\ record.cumulativeBenchmarkVWAP # NULL
       /\ RLt(R(0), record.cumulativeBenchmarkVWAP)
       /\ record.cumulativeFilledQty # NULL
       /\ RLt(R(0), record.cumulativeFilledQty)
    THEN LET denominator == RMul(record.cumulativeBenchmarkVWAP, record.cumulativeFilledQty)
         IN  IF denominator # R(0)
             THEN FormatNumber1(RMul(RDiv(record.dailyPL, denominator), R(10000)))
             ELSE DashText
    ELSE DashText

RECURSIVE SumOf(_)
SumOf(values) == IF values = <<>> THEN R(0) ELSE RAdd(Head(values), SumOf(Tail(values)))

\* data.stockRecords.map(r => r.ALL_DAY_VWAP)
HistoricalDailyVwaps(stockRecords) ==
    [k \in DOMAIN stockRecords |-> stockRecords[k].ALL_DAY_VWAP]

\* historicalDailyVwaps.filter(vwap => vwap !== null)
RECURSIVE ValidHistoricalVwaps(_)
ValidHistoricalVwaps(vwaps) ==
    IF vwaps = <<>> THEN <<>>
    ELSE IF Head(vwaps) # NULL THEN <<Head(vwaps)>> \o ValidHistoricalVwaps(Tail(vwaps))
    ELSE ValidHistoricalVwaps(Tail(vwaps))

FinalBenchmark(scenarioVwaps, futurePrice) ==
    IF Len(scenarioVwaps) > 0 THEN RDiv(SumOf(scenarioVwaps), R(Len(scenarioVwaps)))
    ELSE futurePrice

\* ScenarioPL with the BUY formula for both sides
ScenarioPLOneFormula(side, finalBenchmark, scenarioCumulativeShares, scenarioCumulativeAmount) ==
    RSub(RMul(finalBenchmark, scenarioCumulativeShares), scenarioCumulativeAmount)

\* finalPL of both scenario functions
ScenarioPL(side, finalBenchmark, scenarioCumulativeShares, scenarioCumulativeAmount) ==
    IF side = "SELL"
    THEN RSub(scenarioCumulativeAmount, RMul(finalBenchmark, scenarioCumulativeShares))
    ELSE RSub(RMul(finalBenchmark, scenarioCumulativeShares), scenarioCumulativeAmount)

\* ScenarioArgumentsRejected with the day target compared to 1
ScenarioArgumentsRejectedOffByOne(futurePrice, futureShares, futureDays) ==
    \/ RLe(futurePrice, R(0))
    \/ RLe(futureShares, R(0))
    \/ RLe(futureDays, R(1))

\* the guard of both scenario functions, for a loaded project: one of the three
\* numbers is not positive and the function returns null
ScenarioArgumentsRejected(futurePrice, futureShares, futureDays) ==
    \/ RLe(futurePrice, R(0))
    \/ RLe(futureShares, R(0))
    \/ RLe(futureDays, R(0))

\* SharesPerDay with Math.floor
SharesPerDayFloor(futureSharesLeft, futureDaysTarget) ==
    LET q == RDiv(futureSharesLeft, futureDaysTarget)
    IN  R(q[1] \div q[2])

\* Math.ceil(futureSharesLeft / futureDaysTarget)
SharesPerDay(futureSharesLeft, futureDaysTarget) ==
    RCeil(RDiv(futureSharesLeft, futureDaysTarget))

\* SharesForThisDay without the Math.min
SharesForThisDayUncapped(sharesPerDay, sharesRemainingForScenario) == sharesPerDay

\* Math.min(sharesPerDay, sharesRemainingForScenario)
SharesForThisDay(sharesPerDay, sharesRemainingForScenario) ==
    RMin(sharesPerDay, sharesRemainingForScenario)

\* calculateFutureScenario up to its loop: the locals before the first iteration
FutureScenarioLocals(baseProjectData, historicalDailyVwaps, futurePrice, futureSharesLeft, futureDaysTarget) ==
    [phase |-> "loop",
     futurePrice |-> futurePrice,
     futureSharesLeft |-> futureSharesLeft,
     futureDaysTarget |-> futureDaysTarget,
     scenarioVwaps |-> ValidHistoricalVwaps(historicalDailyVwaps),
     scenarioCumulativeShares |-> OrZero(baseProjectData.totalFilledQty),
     scenarioCumulativeAmount |-> OrZero(baseProjectData.totalFilledAmount),
     sharesPerDay |-> SharesPerDay(futureSharesLeft, futureDaysTarget),
     sharesRemainingForScenario |-> futureSharesLeft,
     i |-> 0,
     sharesForThisDay |-> NULL]

\* one iteration of the loop of calculateFutureScenario that does not break
FutureScenarioDay(f) ==
    LET sharesForThisDay == SharesForThisDay(f.sharesPerDay, f.sharesRemainingForScenario)
    IN  [f EXCEPT
            !.sharesForThisDay = sharesForThisDay,
            !.scenarioCumulativeShares = RAdd(@, sharesForThisDay),
            !.scenarioCumulativeAmount = RAdd(@, RMul(f.futurePrice, sharesForThisDay)),
            !.scenarioVwaps = Append(@, f.futurePrice),
            !.sharesRemainingForScenario = RSub(@, sharesForThisDay),
            !.i = @ + 1]

\* the loop of calculateFutureScenario ends: i reached the target, or the break
FutureLoopEnds(f) ==
    \/ ~RLt(R(f.i), f.futureDaysTarget)
    \/ RLe(SharesForThisDay(f.sharesPerDay, f.sharesRemainingForScenario), R(0))

\* the FutureScenario calculateFutureScenario returns after its loop
FutureScenarioResult(side, f) ==
    LET finalBenchmark == FinalBenchmark(f.scenarioVwaps, f.futurePrice)
        finalPL == ScenarioPL(side, finalBenchmark, f.scenarioCumulativeShares,
                              f.scenarioCumulativeAmount)
    IN  [days |-> f.futureDaysTarget,
         sharesPerDay |-> f.sharesPerDay,
         finalBenchmark |-> finalBenchmark,
         finalPL |-> finalPL,
         finalPLBps |->
            CalculatePLInBasisPoints(finalPL, finalBenchmark, f.scenarioCumulativeShares),
         priceVsBenchmarkPct |-> CalculatePriceVsBenchmarkPct(f.futurePrice, finalBenchmark)]

\* FixedVolumeLoop that trades on one day only
FixedVolumeLoopOneDay(st, futurePrice, dailySharesToTrade, n) ==
    IF n = 0 THEN st
    ELSE [scenarioVwaps |-> Append(st.scenarioVwaps, futurePrice),
          scenarioCumulativeShares |-> RAdd(st.scenarioCumulativeShares, dailySharesToTrade),
          scenarioCumulativeAmount |->
            RAdd(st.scenarioCumulativeAmount, RMul(futurePrice, dailySharesToTrade))]

\* the loop of calculateFixedVolumeScenario, n iterations left
RECURSIVE FixedVolumeLoop(_, _, _, _)
FixedVolumeLoop(st, futurePrice, dailySharesToTrade, n) ==
    IF n = 0 THEN st
    ELSE FixedVolumeLoop(
            [scenarioVwaps |-> Append(st.scenarioVwaps, futurePrice),
             scenarioCumulativeShares |->
                RAdd(st.scenarioCumulativeShares, dailySharesToTrade),
             scenarioCumulativeAmount |->
                RAdd(st.scenarioCumulativeAmount, RMul(futurePrice, dailySharesToTrade))],
            futurePrice, dailySharesToTrade, n - 1)

\* calculateFixedVolumeScenario
CalculateFixedVolumeScenario(baseProjectData, historicalDailyVwaps, futurePrice, dailySharesToTrade, numberOfDays) ==
    IF ScenarioArgumentsRejected(futurePrice, dailySharesToTrade, R(numberOfDays)) THEN NULL
    ELSE
    LET st == FixedVolumeLoop(
                [scenarioVwaps |-> ValidHistoricalVwaps(historicalDailyVwaps),
                 scenarioCumulativeShares |-> OrZero(baseProjectData.totalFilledQty),
                 scenarioCumulativeAmount |-> OrZero(baseProjectData.totalFilledAmount)],
                futurePrice, dailySharesToTrade, numberOfDays)
        finalBenchmark == FinalBenchmark(st.scenarioVwaps, futurePrice)
        finalPL == ScenarioPL(baseProjectData.Side, finalBenchmark,
                              st.scenarioCumulativeShares, st.scenarioCumulativeAmount)
    IN  [day |-> R(numberOfDays),
         totalSharesTraded |-> st.scenarioCumulativeShares,
         finalBenchmark |-> finalBenchmark,
         finalPL |-> finalPL,
         finalPLBps |->
            CalculatePLInBasisPoints(finalPL, finalBenchmark, st.scenarioCumulativeShares),
         priceVsBenchmarkPct |-> CalculatePriceVsBenchmarkPct(futurePrice, finalBenchmark)]

\* -------------------------------------------------------------------- state

VARIABLES
    dbProject,              \* the row of projects
    dbStockRecords,         \* the rows of stock_records of the project, by Date
    handlerPc,              \* position of the project-detail handler
    projectData,            \* handler: the fetched project
    rawStockRecords,        \* handler: the fetched records
    acc,                    \* handler: the five accumulators
    processedStockRecords,  \* handler: the records mapped so far
    detailResponse,         \* what the project-detail handler answered
    listResponse,           \* what the project-list handler answered
    data,                   \* page: useState data
    finalMetrics,           \* page: useState finalMetrics
    loading,                \* page: useState loading
    error,                  \* page: useState error
    simInputPrice,          \* page: useState simInputPrice (text)
    simInputShares,         \* page: useState simInputShares (text)
    simInputDays,           \* page: useState simInputDays (text)
    simPc,                  \* page: position of the simulation effect
    d,                      \* simulation effect: the loop counter d
    future,                 \* calculateFutureScenario: its locals
    newFutureScenarios,     \* simulation effect: the list being built
    newFixedVolumeScenarios, \* simulation effect: the list being built
    futureScenarios,        \* page: useState futureScenarios
    fixedVolumeScenarios,   \* page: useState fixedVolumeScenarios
    otherRequest,           \* a second call of the project-detail handler: its locals
    currentMarketPrice,     \* page: useState currentMarketPrice
    currentAllDayVWAP,      \* page: useState currentAllDayVWAP
    marketPriceLoading,     \* page: useState marketPriceLoading
    marketPriceError,       \* page: useState marketPriceError
    marketPc,               \* page: position of fetchMarketData
    db,                     \* lib/db.ts: the module variable db
    getDbCalls,             \* lib/db.ts: the calls of getDb, their position and result
    connectionsOpened,      \* lib/db.ts: how many times open() has been called
    projectID,              \* page: router.query.projectID
    fetches                 \* page: the calls of fetchProjectDetails, in order of start

dbVars == <<dbProject, dbStockRecords>>
handlerVars ==
    <<handlerPc, projectData, rawStockRecords, acc, processedStockRecords, detailResponse>>
pageVars == <<data, finalMetrics, loading, error>>
simInputs == <<simInputPrice, simInputShares, simInputDays>>
simVars ==
    <<simInputs, simPc, d, future, newFutureScenarios, newFixedVolumeScenarios,
      futureScenarios, fixedVolumeScenarios>>
marketVars ==
    <<currentMarketPrice, currentAllDayVWAP, marketPriceLoading, marketPriceError, marketPc>>
connVars == <<db, getDbCalls, connectionsOpened>>
fetchVars == <<projectID, fetches>>
vars ==
    <<dbVars, connVars, fetchVars, handlerVars, listResponse, pageVars, simVars, otherRequest,
      marketVars>>

NoResponse == [status |-> 0]
NoLocals == [phase |-> "none"]

\* no second call of the handler is made
NoRequest ==
    [pc |-> "none", dbProject |-> NULL, dbStockRecords |-> <<>>, projectData |-> NULL,
     rawStockRecords |-> <<>>, acc |-> InitialAccumulators,
     processedStockRecords |-> <<>>, response |-> NoResponse]

\* parallel callers of getDb in one process
MaxCallers == 3
Callers == 1..MaxCallers

\* the calls of fetchProjectDetails one visit of the page starts
MaxFetches == 3

\* getDb has not been called
NoCall == [pc |-> "idle", opening |-> NULL, result |-> NULL]
ConnIdle ==
    /\ db = NULL
    /\ getDbCalls = [c \in Callers |-> NoCall]
    /\ connectionsOpened = 0

\* the router is not ready: no projectID, no fetch
FetchIdle ==
    /\ projectID = ""
    /\ fetches = <<>>

\* fetchMarketData has not run
MarketIdle ==
    /\ currentMarketPrice = NULL
    /\ currentAllDayVWAP = NULL
    /\ marketPriceLoading = FALSE
    /\ marketPriceError = NULL
    /\ marketPc = "idle"

\* the simulation effect has not run
SimulationIdle ==
    /\ simPc = "idle"
    /\ d = 0
    /\ future = NoLocals
    /\ newFutureScenarios = <<>>
    /\ newFixedVolumeScenarios = <<>>
    /\ futureScenarios = <<>>
    /\ fixedVolumeScenarios = <<>>

Init ==
    /\ dbProject \in Projects
    /\ dbStockRecords \in RecordLists
    /\ handlerPc = "idle"
    /\ projectData = NULL
    /\ rawStockRecords = <<>>
    /\ acc = InitialAccumulators
    /\ processedStockRecords = <<>>
    /\ detailResponse = NoResponse
    /\ listResponse = NoResponse
    /\ data = NULL
    /\ finalMetrics = NULL
    /\ loading = TRUE
    /\ error = NULL
    /\ simInputPrice = <<>>
    /\ simInputShares = <<>>
    /\ simInputDays = <<"1">>
    /\ SimulationIdle
    /\ MarketIdle
    /\ ConnIdle
    /\ FetchIdle
    /\ otherRequest = NoRequest

\* CapturedAccumulators with the variables of another call of the handler
CapturedAccumulatorsOfOtherCall(thisCall, otherCall) == otherCall

\* the accumulators the callback of map reads and writes: those declared by the
\* call of the handler that runs it
CapturedAccumulators(thisCall, otherCall) == thisCall

\* handler, up to the map: the two queries and the fresh accumulators
HandlerQuery ==
    /\ handlerPc = "idle"
    /\ handlerPc' = "map"
    /\ projectData' = dbProject
    /\ rawStockRecords' = dbStockRecords
    /\ acc' = InitialAccumulators
    /\ processedStockRecords' = <<>>
    /\ UNCHANGED <<dbVars, connVars, fetchVars, otherRequest, marketVars, detailResponse, listResponse, pageVars, simVars>>

\* handler: one call of the callback of rawStockRecords.map
HandlerMapRecord ==
    /\ handlerPc = "map"
    /\ Len(processedStockRecords) < Len(rawStockRecords)
    /\ LET rawRecord == rawStockRecords[Len(processedStockRecords) + 1]
           next == MapAccumulators(CapturedAccumulators(acc, otherRequest.acc), rawRecord)
       IN  /\ acc' = next
           /\ processedStockRecords' =
                Append(processedStockRecords, ProcessedRecord(projectData, next, rawRecord))
    /\ UNCHANGED <<dbVars, connVars, fetchVars, otherRequest, marketVars, handlerPc, projectData, rawStockRecords, detailResponse,
                   listResponse, pageVars, simVars>>

\* handler, after the map: the summary and the response
HandlerRespond ==
    /\ handlerPc = "map"
    /\ Len(processedStockRecords) = Len(rawStockRecords)
    /\ handlerPc' = "responded"
    /\ detailResponse' =
        [status |-> 200,
         project |-> ProjectWithProgressData(projectData, acc, Len(processedStockRecords)),
         stockRecords |-> processedStockRecords]
    /\ UNCHANGED <<dbVars, connVars, fetchVars, otherRequest, marketVars, projectData, rawStockRecords, acc, processedStockRecords,
                   listResponse, pageVars, simVars>>

\* the project-list handler, whole
ListHandler ==
    /\ listResponse = NoResponse
    /\ listResponse' =
        [status |-> 200,
         projects |-> <<ProjectListEntry(dbProject, AggregatedStockDataArray(dbStockRecords))>>]
    /\ UNCHANGED <<dbVars, connVars, fetchVars, otherRequest, marketVars, handlerVars, pageVars, simVars>>

\* page: fetchProjectDetails once the response has arrived
FetchProjectDetails ==
    /\ loading
    /\ detailResponse.status = 200
    /\ data' = [project |-> detailResponse.project,
                stockRecords |-> detailResponse.stockRecords]
    /\ finalMetrics' = FinalMetricsOf(data')
    /\ error' = NULL
    /\ loading' = FALSE
    /\ UNCHANGED <<dbVars, connVars, fetchVars, otherRequest, marketVars, handlerVars, listResponse, simVars>>

\* one request for the project detail page
Next ==
    \/ HandlerQuery
    \/ HandlerMapRecord
    \/ HandlerRespond
    \/ FetchProjectDetails

Spec == Init /\ [][Next]_vars

\* one request for the project list
NextList == ListHandler

SpecList == Init /\ [][NextList]_vars

\* ------------------------------------------ two calls of the handler at once

\* the records of the projects the two calls are made for
ConcurrentRecordLists ==
    {recs \in RecordLists :
        \A k \in DOMAIN recs :
            /\ recs[k].FilledQty = R(1)
            /\ recs[k].FilledAveragePrice = R(2)
            /\ recs[k].ALL_DAY_VWAP \in {NULL, R(3)}}
ConcurrentProjects == {p \in Projects : p.Business_Days = R(1)}

\* two requests, for the same project or for two projects, neither yet served
InitConcurrent ==
    /\ dbProject \in ConcurrentProjects
    /\ dbStockRecords \in ConcurrentRecordLists
    /\ handlerPc = "idle"
    /\ projectData = NULL
    /\ rawStockRecords = <<>>
    /\ acc = InitialAccumulators
    /\ processedStockRecords = <<>>
    /\ detailResponse = NoResponse
    /\ listResponse = NoResponse
    /\ data = NULL
    /\ finalMetrics = NULL
    /\ loading = TRUE
    /\ error = NULL
    /\ simInputPrice = <<>>
    /\ simInputShares = <<>>
    /\ simInputDays = <<"1">>
    /\ SimulationIdle
    /\ MarketIdle
    /\ ConnIdle
    /\ FetchIdle
    /\ \E p \in ConcurrentProjects, recs \in ConcurrentRecordLists :
        otherRequest =
            [NoRequest EXCEPT !.pc = "idle", !.dbProject = p, !.dbStockRecords = recs]

\* the second call, up to the map
OtherHandlerQuery ==
    /\ otherRequest.pc = "idle"
    /\ otherRequest' =
        [otherRequest EXCEPT !.pc = "map",
                             !.projectData = otherRequest.dbProject,
                             !.rawStockRecords = otherRequest.dbStockRecords,
                             !.acc = InitialAccumulators,
                             !.processedStockRecords = <<>>]
    /\ UNCHANGED <<dbVars, connVars, fetchVars, handlerVars, listResponse, pageVars, simVars, marketVars>>

\* the second call: one call of the callback of rawStockRecords.map
OtherHandlerMapRecord ==
    /\ otherRequest.pc = "map"
    /\ Len(otherRequest.processedStockRecords) < Len(otherRequest.rawStockRecords)
    /\ LET rawRecord ==
                otherRequest.rawStockRecords[Len(otherRequest.processedStockRecords) + 1]
           next == MapAccumulators(CapturedAccumulators(otherRequest.acc, acc), rawRecord)
       IN  otherRequest' =
                [otherRequest EXCEPT
                    !.acc = next,
                    !.processedStockRecords =
                        Append(@, ProcessedRecord(otherRequest.projectData, next, rawRecord))]
    /\ UNCHANGED <<dbVars, connVars, fetchVars, handlerVars, listResponse, pageVars, simVars, marketVars>>

\* the second call, after the map
OtherHandlerRespond ==
    /\ otherRequest.pc = "map"
    /\ Len(otherRequest.processedStockRecords) = Len(otherRequest.rawStockRecords)
    /\ otherRequest' =
        [otherRequest EXCEPT
            !.pc = "responded",
            !.response =
                [status |-> 200,
                 project |-> ProjectWithProgressData(otherRequest.projectData,
                                otherRequest.acc, Len(otherRequest.processedStockRecords)),
                 stockRecords |-> otherRequest.processedStockRecords]]
    /\ UNCHANGED <<dbVars, connVars, fetchVars, handlerVars, listResponse, pageVars, simVars, marketVars>>

\* the steps of the two calls, in any order
NextConcurrent ==
    \/ HandlerQuery
    \/ HandlerMapRecord
    \/ HandlerRespond
    \/ OtherHandlerQuery
    \/ OtherHandlerMapRecord
    \/ OtherHandlerRespond

SpecConcurrent == InitConcurrent /\ [][NextConcurrent]_vars

\* the fee column of the history table, as the page renders it from data
PerformanceFeeColumn ==
    [i \in (IF IsNull(data) THEN {} ELSE DOMAIN data.stockRecords) |->
        PerformanceFeeAmount(data.stockRecords[i].dailyPL,
                             data.project.Performance_Based_Fee_Rate)]

TypeOK ==
    /\ handlerPc \in {"idle", "map", "responded"}
    /\ Len(processedStockRecords) <= Len(rawStockRecords)
    /\ loading \in BOOLEAN


\* ------------------------------------------------ the simulation effect

MaxSimShares == 5
MaxSimDays == 4

\* what the user types into the three inputs of the simulation
SimPriceInputs == {<<>>, <<"0">>, <<"3">>}
SimSharesInputs ==
    {<<"-", "1">>, <<"1", "0", "0">>, <<"1", "0", "1">>}
        \cup {<<DigitChars[n + 1]>> : n \in 1..MaxSimShares}
SimDaysInputs == {<<DigitChars[n + 1]>> : n \in 0..MaxSimDays}

\* the accumulators after the whole map
RECURSIVE AccumulatorsAfter(_, _)
AccumulatorsAfter(recs, n) ==
    IF n = 0 THEN InitialAccumulators
    ELSE MapAccumulators(AccumulatorsAfter(recs, n - 1), recs[n])

\* the stockRecords of the response
ProcessedRecords(project, recs) ==
    [k \in DOMAIN recs |-> ProcessedRecord(project, AccumulatorsAfter(recs, k), recs[k])]

\* the records of the projects whose page the simulation is run on: one fill a day
SimRecordLists ==
    {recs \in RecordLists :
        \A k \in DOMAIN recs :
            /\ recs[k].Date = k
            /\ recs[k].FilledQty = R(1)
            /\ recs[k].FilledAveragePrice = R(2)}
SimProjects == {p \in Projects : p.Business_Days = R(1)}

\* the page after it has loaded a project, the user having typed the three inputs
InitScenario ==
    /\ dbProject \in SimProjects
    /\ dbStockRecords \in SimRecordLists
    /\ handlerPc = "responded"
    /\ projectData = dbProject
    /\ rawStockRecords = dbStockRecords
    /\ acc = AccumulatorsAfter(dbStockRecords, Len(dbStockRecords))
    /\ processedStockRecords = ProcessedRecords(dbProject, dbStockRecords)
    /\ detailResponse =
        [status |-> 200,
         project |-> ProjectWithProgressData(projectData, acc, Len(processedStockRecords)),
         stockRecords |-> processedStockRecords]
    /\ listResponse = NoResponse
    /\ data = [project |-> detailResponse.project,
               stockRecords |-> detailResponse.stockRecords]
    /\ finalMetrics = FinalMetricsOf(data)
    /\ loading = FALSE
    /\ error = NULL
    /\ otherRequest = NoRequest
    /\ simInputPrice \in SimPriceInputs
    /\ simInputShares \in SimSharesInputs
    /\ simInputDays \in SimDaysInputs
    /\ SimulationIdle
    /\ MarketIdle
    /\ ConnIdle
    /\ FetchIdle

numFuturePrice == ParseFloat(simInputPrice)
numSimShares == ParseFloat(simInputShares)
numMaxDays == ParseInt(simInputDays)

\* the effect starts: it parses the inputs and, when one is not a positive number,
\* empties both lists
SimulationEffect ==
    /\ simPc = "idle"
    /\ ~IsNull(data)
    /\ IF ValidPositive(numFuturePrice) /\ ValidPositive(numSimShares)
          /\ ValidPositive(numMaxDays)
       THEN /\ simPc' = "futureCall"
            /\ d' = 1
            /\ UNCHANGED <<futureScenarios, fixedVolumeScenarios>>
       ELSE /\ simPc' = "done"
            /\ futureScenarios' = <<>>
            /\ fixedVolumeScenarios' = <<>>
            /\ UNCHANGED d
    /\ newFutureScenarios' = <<>>
    /\ newFixedVolumeScenarios' = <<>>
    /\ UNCHANGED <<dbVars, connVars, fetchVars, otherRequest, marketVars, handlerVars, listResponse, pageVars, simInputs, future>>

\* calculateFutureScenario(data.project, historicalDailyVwaps, numFuturePrice,
\* numSimShares, d), up to its loop
FutureScenarioEnter ==
    /\ simPc = "futureCall"
    /\ IF ScenarioArgumentsRejected(numFuturePrice, numSimShares, R(d))
       THEN \* it returns null and the effect pushes nothing
            /\ future' = NoLocals
            /\ IF RLe(R(d + 1), numMaxDays)
               THEN /\ d' = d + 1
                    /\ UNCHANGED <<simPc, futureScenarios>>
               ELSE /\ d' = 1
                    /\ simPc' = "fixedCall"
                    /\ futureScenarios' = newFutureScenarios
       ELSE /\ simPc' = "futureLoop"
            /\ future' = FutureScenarioLocals(data.project,
                                              HistoricalDailyVwaps(data.stockRecords),
                                              numFuturePrice, numSimShares, R(d))
            /\ UNCHANGED <<d, futureScenarios>>
    /\ UNCHANGED <<dbVars, connVars, fetchVars, otherRequest, marketVars, handlerVars, listResponse, pageVars, simInputs,
                   newFutureScenarios, newFixedVolumeScenarios, fixedVolumeScenarios>>

\* one simulated day
FutureScenarioTradeDay ==
    /\ simPc = "futureLoop"
    /\ ~FutureLoopEnds(future)
    /\ future' = FutureScenarioDay(future)
    /\ UNCHANGED <<dbVars, connVars, fetchVars, otherRequest, marketVars, handlerVars, listResponse, pageVars, simInputs, simPc, d,
                   newFutureScenarios, newFixedVolumeScenarios, futureScenarios,
                   fixedVolumeScenarios>>

\* calculateFutureScenario returns, the effect pushes the scenario and goes on to
\* the next d, or, after the last, stores the list
FutureScenarioReturn ==
    /\ simPc = "futureLoop"
    /\ FutureLoopEnds(future)
    /\ future' = [future EXCEPT !.phase = "returned"]
    /\ newFutureScenarios' =
        Append(newFutureScenarios, FutureScenarioResult(data.project.Side, future))
    /\ IF RLe(R(d + 1), numMaxDays)
       THEN /\ d' = d + 1
            /\ simPc' = "futureCall"
            /\ UNCHANGED futureScenarios
       ELSE /\ d' = 1
            /\ simPc' = "fixedCall"
            /\ futureScenarios' = newFutureScenarios'
    /\ UNCHANGED <<dbVars, connVars, fetchVars, otherRequest, marketVars, handlerVars, listResponse, pageVars, simInputs,
                   newFixedVolumeScenarios, fixedVolumeScenarios>>

\* calculateFixedVolumeScenario(data.project, historicalDailyVwaps, numFuturePrice,
\* numSimShares, d), whole, and the push of its scenario
FixedVolumeScenarioCall ==
    /\ simPc = "fixedCall"
    /\ LET scenario ==
            CalculateFixedVolumeScenario(data.project,
                                         HistoricalDailyVwaps(data.stockRecords),
                                         numFuturePrice, numSimShares, d)
       IN  newFixedVolumeScenarios' =
                IF IsNull(scenario) THEN newFixedVolumeScenarios
                ELSE Append(newFixedVolumeScenarios, scenario)
    /\ IF RLe(R(d + 1), numMaxDays)
       THEN /\ d' = d + 1
            /\ UNCHANGED <<simPc, fixedVolumeScenarios>>
       ELSE /\ d' = 0
            /\ simPc' = "done"
            /\ fixedVolumeScenarios' = newFixedVolumeScenarios'
    /\ UNCHANGED <<dbVars, connVars, fetchVars, otherRequest, marketVars, handlerVars, listResponse, pageVars, simInputs, future,
                   newFutureScenarios, futureScenarios>>

NextScenario ==
    \/ SimulationEffect
    \/ FutureScenarioEnter
    \/ FutureScenarioTradeDay
    \/ FutureScenarioReturn
    \/ FixedVolumeScenarioCall

SpecScenario == InitScenario /\ [][NextScenario]_vars

\* ------------------------------- the market price and the remaining target

\* what /api/fetch-market-price answers as price and as allDayVWAP
MarketDataPrices == {UNDEFINED, NULL, R(0), R(1), R(4)}
MarketDataVwaps == {UNDEFINED, R(3)}

\* the texts of the page: a status text is a one-element tuple, null the empty one
PriceLoadingText == <<"price loading">>            \* '株価読込中...'
RemainderTooSmallText == <<"remainder too small">> \* '株価に対し残額僅少'
PriceNotFetchedText == <<"price not fetched">>     \* '株価未取得'
PriceInvalidText == <<"price invalid">>            \* '株価不正'
TargetNotSetText == <<"target not set">>           \* '目標未設定'
CompletedText == <<"0 shares/day (completed)">>    \* '0 株/日 (完了)'
EarliestPassedText == <<"earliest day passed">>    \* '最短期限超過'
NoDaysLeftText == <<"no days left">>               \* '残日数なし'
NotAvailableText == <<"N/A">>

\* Math.round
Round(x) == (2 * x[1] + x[2]) \div (2 * x[2])

\* formatNumber(value, 0)
FormatNumber0(value) ==
    IF value = NULL \/ value = UNDEFINED THEN NotAvailableText ELSE <<"number", Round(value)>>

\* formatNumber(shares / days, 0) + ' 株/日'
SharesPerDayText(shares, days) == <<"shares/day", Round(RDiv(shares, days))>>

TradedDays(project) == project.tradedDaysCount
DaysUntilEarliest(project) ==
    IF IsNum(project.Earliest_Day_Count)
    THEN RSub(project.Earliest_Day_Count, R(TradedDays(project))) ELSE NULL
RemainingBusinessDays(project) ==
    IF IsNum(project.Business_Days)
    THEN RSub(project.Business_Days, R(TradedDays(project))) ELSE NULL

\* RemainingTarget without Math.max(0, ...)
RemainingTargetUnclamped(project, priceLoading, marketPrice) ==
    IF project.Total_Shares # NULL /\ RLt(R(0), project.Total_Shares)
    THEN [effectiveRemainingTargetShares |->
            RSub(project.Total_Shares, OrZero(project.totalFilledQty)),
          sharesCalcStatusMessage |-> NULL,
          remainingAmount |-> NULL]
    ELSE IF project.Total_Amount # NULL /\ RLt(R(0), project.Total_Amount)
    THEN LET remainingAmount ==
                RSub(project.Total_Amount, OrZero(project.totalFilledAmount))
             unpriced(message) ==
                [effectiveRemainingTargetShares |-> NULL,
                 sharesCalcStatusMessage |-> message,
                 remainingAmount |-> remainingAmount]
         IN  IF priceLoading THEN unpriced(PriceLoadingText)
             ELSE IF marketPrice # NULL /\ RLt(R(0), marketPrice)
             THEN LET shares == RDiv(remainingAmount, marketPrice)
                  IN  IF RLt(shares, R(1)) /\ RLt(R(0), remainingAmount)
                      THEN [effectiveRemainingTargetShares |-> R(0),
                            sharesCalcStatusMessage |-> RemainderTooSmallText,
                            remainingAmount |-> remainingAmount]
                      ELSE [effectiveRemainingTargetShares |-> shares,
                            sharesCalcStatusMessage |-> NULL,
                            remainingAmount |-> remainingAmount]
             ELSE IF marketPrice = NULL THEN unpriced(PriceNotFetchedText)
             ELSE unpriced(PriceInvalidText)
    ELSE IF \/ RLt(R(0), OrZero(project.totalFilledQty))
            \/ RLt(R(0), OrZero(project.totalFilledAmount))
            \/ project.Total_Shares = R(0)
            \/ project.Total_Amount = R(0)
    THEN [effectiveRemainingTargetShares |-> R(0),
          sharesCalcStatusMessage |-> NULL,
          remainingAmount |-> NULL]
    ELSE [effectiveRemainingTargetShares |-> NULL,
          sharesCalcStatusMessage |-> TargetNotSetText,
          remainingAmount |-> NULL]

\* RemainingTarget without the test for fills under an unset target
RemainingTargetNoFillTest(project, priceLoading, marketPrice) ==
    IF project.Total_Shares # NULL /\ RLt(R(0), project.Total_Shares)
    THEN [effectiveRemainingTargetShares |->
            RMax(R(0), RSub(project.Total_Shares, OrZero(project.totalFilledQty))),
          sharesCalcStatusMessage |-> NULL,
          remainingAmount |-> NULL]
    ELSE IF project.Total_Amount # NULL /\ RLt(R(0), project.Total_Amount)
    THEN LET remainingAmount ==
                RMax(R(0), RSub(project.Total_Amount, OrZero(project.totalFilledAmount)))
             unpriced(message) ==
                [effectiveRemainingTargetShares |-> NULL,
                 sharesCalcStatusMessage |-> message,
                 remainingAmount |-> remainingAmount]
         IN  IF priceLoading THEN unpriced(PriceLoadingText)
             ELSE IF marketPrice # NULL /\ RLt(R(0), marketPrice)
             THEN LET shares == RDiv(remainingAmount, marketPrice)
                  IN  IF RLt(shares, R(1)) /\ RLt(R(0), remainingAmount)
                      THEN [effectiveRemainingTargetShares |-> R(0),
                            sharesCalcStatusMessage |-> RemainderTooSmallText,
                            remainingAmount |-> remainingAmount]
                      ELSE [effectiveRemainingTargetShares |-> shares,
                            sharesCalcStatusMessage |-> NULL,
                            remainingAmount |-> remainingAmount]
             ELSE IF marketPrice = NULL THEN unpriced(PriceNotFetchedText)
             ELSE unpriced(PriceInvalidText)
    ELSE IF \/ project.Total_Shares = R(0)
            \/ project.Total_Amount = R(0)
    THEN [effectiveRemainingTargetShares |-> R(0),
          sharesCalcStatusMessage |-> NULL,
          remainingAmount |-> NULL]
    ELSE [effectiveRemainingTargetShares |-> NULL,
          sharesCalcStatusMessage |-> TargetNotSetText,
          remainingAmount |-> NULL]

\* RemainingTarget that prices the remaining amount at 1 when it has no price
RemainingTargetGuessed(project, priceLoading, marketPrice) ==
    [effectiveRemainingTargetShares |->
        IF project.Total_Shares # NULL /\ RLt(R(0), project.Total_Shares)
        THEN RMax(R(0), RSub(project.Total_Shares, OrZero(project.totalFilledQty)))
        ELSE IF project.Total_Amount # NULL /\ RLt(R(0), project.Total_Amount)
        THEN RMax(R(0), RSub(project.Total_Amount, OrZero(project.totalFilledAmount)))
        ELSE R(0),
     sharesCalcStatusMessage |-> NULL,
     remainingAmount |-> NULL]

\* effectiveRemainingTargetShares, sharesCalcStatusMessage and remainingAmount
RemainingTarget(project, priceLoading, marketPrice) ==
    IF project.Total_Shares # NULL /\ RLt(R(0), project.Total_Shares)
    THEN [effectiveRemainingTargetShares |->
            RMax(R(0), RSub(project.Total_Shares, OrZero(project.totalFilledQty))),
          sharesCalcStatusMessage |-> NULL,
          remainingAmount |-> NULL]
    ELSE IF project.Total_Amount # NULL /\ RLt(R(0), project.Total_Amount)
    THEN LET remainingAmount ==
                RMax(R(0), RSub(project.Total_Amount, OrZero(project.totalFilledAmount)))
             unpriced(message) ==
                [effectiveRemainingTargetShares |-> NULL,
                 sharesCalcStatusMessage |-> message,
                 remainingAmount |-> remainingAmount]
         IN  IF priceLoading THEN unpriced(PriceLoadingText)
             ELSE IF marketPrice # NULL /\ RLt(R(0), marketPrice)
             THEN LET shares == RDiv(remainingAmount, marketPrice)
                  IN  IF RLt(shares, R(1)) /\ RLt(R(0), remainingAmount)
                      THEN [effectiveRemainingTargetShares |-> R(0),
                            sharesCalcStatusMessage |-> RemainderTooSmallText,
                            remainingAmount |-> remainingAmount]
                      ELSE [effectiveRemainingTargetShares |-> shares,
                            sharesCalcStatusMessage |-> NULL,
                            remainingAmount |-> remainingAmount]
             ELSE IF marketPrice = NULL THEN unpriced(PriceNotFetchedText)
             ELSE unpriced(PriceInvalidText)
    ELSE IF \/ RLt(R(0), OrZero(project.totalFilledQty))
            \/ RLt(R(0), OrZero(project.totalFilledAmount))
            \/ project.Total_Shares = R(0)
            \/ project.Total_Amount = R(0)
    THEN [effectiveRemainingTargetShares |-> R(0),
          sharesCalcStatusMessage |-> NULL,
          remainingAmount |-> NULL]
    ELSE [effectiveRemainingTargetShares |-> NULL,
          sharesCalcStatusMessage |-> TargetNotSetText,
          remainingAmount |-> NULL]

\* MaxSharesPerDayText without the test for a remaining target of 0
MaxSharesPerDayTextNoCompleted(target, daysUntilEarliest) ==
    IF /\ target.sharesCalcStatusMessage # NULL
       /\ target.sharesCalcStatusMessage # RemainderTooSmallText
    THEN target.sharesCalcStatusMessage
    ELSE IF target.effectiveRemainingTargetShares # NULL
    THEN IF daysUntilEarliest # NULL /\ RLt(R(0), daysUntilEarliest)
         THEN SharesPerDayText(target.effectiveRemainingTargetShares, daysUntilEarliest)
         ELSE IF daysUntilEarliest # NULL THEN EarliestPassedText
         ELSE NotAvailableText
    ELSE NotAvailableText

MaxSharesPerDayText(target, daysUntilEarliest) ==
    IF /\ target.sharesCalcStatusMessage # NULL
       /\ target.sharesCalcStatusMessage # RemainderTooSmallText
    THEN target.sharesCalcStatusMessage
    ELSE IF target.effectiveRemainingTargetShares # NULL
    THEN IF target.effectiveRemainingTargetShares = R(0) THEN CompletedText
         ELSE IF daysUntilEarliest # NULL /\ RLt(R(0), daysUntilEarliest)
         THEN SharesPerDayText(target.effectiveRemainingTargetShares, daysUntilEarliest)
         ELSE IF daysUntilEarliest # NULL THEN EarliestPassedText
         ELSE NotAvailableText
    ELSE NotAvailableText

MinSharesPerDayText(target, remainingBusinessDays) ==
    IF /\ target.sharesCalcStatusMessage # NULL
       /\ target.sharesCalcStatusMessage # RemainderTooSmallText
    THEN target.sharesCalcStatusMessage
    ELSE IF target.effectiveRemainingTargetShares # NULL
    THEN IF target.effectiveRemainingTargetShares = R(0) THEN CompletedText
         ELSE IF remainingBusinessDays # NULL /\ RLt(R(0), remainingBusinessDays)
         THEN SharesPerDayText(target.effectiveRemainingTargetShares, remainingBusinessDays)
         ELSE IF remainingBusinessDays # NULL THEN NoDaysLeftText
         ELSE NotAvailableText
    ELSE NotAvailableText

CanCalculateBreakdown(target, daysUntilEarliest, remainingBusinessDays) ==
    /\ target.effectiveRemainingTargetShares # NULL
    /\ RLt(R(0), target.effectiveRemainingTargetShares)
    /\ daysUntilEarliest # NULL
    /\ RLt(R(0), daysUntilEarliest)
    /\ remainingBusinessDays # NULL
    /\ RLe(daysUntilEarliest, remainingBusinessDays)

\* the number of iterations of for (let d = startDay; d <= endDay; d++)
BreakdownDays(startDay, endDay) ==
    LET span == RSub(endDay, startDay) IN (span[1] \div span[2]) + 1

\* DailySharesBreakdown whose loop stops one day before endDay
DailySharesBreakdownShort(target, daysUntilEarliest, remainingBusinessDays) ==
    IF CanCalculateBreakdown(target, daysUntilEarliest, remainingBusinessDays)
    THEN [i \in 1..(BreakdownDays(daysUntilEarliest, remainingBusinessDays) - 1) |->
            LET day == RAdd(daysUntilEarliest, R(i - 1))
            IN  [dayCount |-> day,
                 sharesPerDay |-> RDiv(target.effectiveRemainingTargetShares, day)]]
    ELSE <<>>

\* dailySharesBreakdown; startDay > 0, so every d of the loop is > 0
DailySharesBreakdown(target, daysUntilEarliest, remainingBusinessDays) ==
    IF CanCalculateBreakdown(target, daysUntilEarliest, remainingBusinessDays)
    THEN [i \in 1..BreakdownDays(daysUntilEarliest, remainingBusinessDays) |->
            LET day == RAdd(daysUntilEarliest, R(i - 1))
            IN  [dayCount |-> day,
                 sharesPerDay |-> RDiv(target.effectiveRemainingTargetShares, day)]]
    ELSE <<>>

\* one line of the list: {item.dayCount}日: {formatNumber(item.sharesPerDay, 0)} 株/日
BreakdownItemText(item) == <<"shares/day", Round(item.sharesPerDay)>>

\* the remaining-shares figure of the page
RemainingTargetSharesText(target) ==
    IF target.sharesCalcStatusMessage # NULL THEN target.sharesCalcStatusMessage
    ELSE FormatNumber0(target.effectiveRemainingTargetShares)

\* fetchMarketData up to its fetch: the effect runs once the project has a ticker
FetchMarketDataStart ==
    /\ marketPc = "idle"
    /\ ~IsNull(data)
    /\ data.project.Ticker # ""
    /\ marketPc' = "fetching"
    /\ marketPriceLoading' = TRUE
    /\ marketPriceError' = NULL
    /\ currentMarketPrice' = NULL
    /\ currentAllDayVWAP' = NULL
    /\ UNCHANGED <<dbVars, connVars, fetchVars, otherRequest, handlerVars, listResponse, pageVars, simVars>>

\* fetchMarketData: the lookup fails or answers an error, catch and finally
FetchMarketDataFails ==
    /\ marketPc = "fetching"
    /\ marketPc' = "done"
    /\ marketPriceError' = <<"Failed to fetch market data">>
    /\ currentMarketPrice' = NULL
    /\ currentAllDayVWAP' = NULL
    /\ marketPriceLoading' = FALSE
    /\ UNCHANGED <<dbVars, connVars, fetchVars, otherRequest, handlerVars, listResponse, pageVars, simVars>>

\* fetchMarketData: the lookup answers marketData, then finally
FetchMarketDataSucceeds ==
    /\ marketPc = "fetching"
    /\ marketPc' = "done"
    /\ \E price \in MarketDataPrices, allDayVWAP \in MarketDataVwaps :
        /\ currentMarketPrice' = IF price # UNDEFINED THEN price ELSE currentMarketPrice
        /\ currentAllDayVWAP' =
                IF allDayVWAP # UNDEFINED THEN allDayVWAP ELSE currentAllDayVWAP
    /\ marketPriceLoading' = FALSE
    /\ UNCHANGED <<dbVars, connVars, fetchVars, otherRequest, handlerVars, listResponse, pageVars, simVars,
                   marketPriceError>>

\* the loaded page of any project, a simulation typed in
MarketRecordLists ==
    {recs \in RecordLists :
        \A k \in DOMAIN recs :
            /\ recs[k].Date = k
            /\ recs[k].FilledQty = R(1)
            /\ recs[k].FilledAveragePrice \in {R(0), R(2)}
            /\ recs[k].ALL_DAY_VWAP = R(3)}

\* more working orders for the pace figures: a share target with days left before
\* and after the earliest day, and a share target of 0
PaceTargets ==
    { [Total_Shares |-> R(1), Total_Amount |-> NULL, Business_Days |-> R(3),
       Performance_Based_Fee_Rate |-> R(10), Fixed_Fee_Rate |-> R(50),
       Ticker |-> "7203", Earliest_Day_Count |-> R(2)],
      [Total_Shares |-> R(0), Total_Amount |-> NULL, Business_Days |-> R(1),
       Performance_Based_Fee_Rate |-> R(10), Fixed_Fee_Rate |-> R(50),
       Ticker |-> "7203", Earliest_Day_Count |-> NULL] }

PaceProjects ==
    { [ProjectID |-> "P1",
       Side |-> s, Total_Shares |-> t.Total_Shares, Total_Amount |-> t.Total_Amount,
       Business_Days |-> t.Business_Days,
       Performance_Based_Fee_Rate |-> t.Performance_Based_Fee_Rate,
       Fixed_Fee_Rate |-> t.Fixed_Fee_Rate, Ticker |-> t.Ticker,
       Earliest_Day_Count |-> t.Earliest_Day_Count] :
      s \in Sides, t \in PaceTargets }

InitMarket ==
    /\ dbProject \in Projects \cup PaceProjects
    /\ dbStockRecords \in MarketRecordLists
    /\ handlerPc = "responded"
    /\ projectData = dbProject
    /\ rawStockRecords = dbStockRecords
    /\ acc = AccumulatorsAfter(dbStockRecords, Len(dbStockRecords))
    /\ processedStockRecords = ProcessedRecords(dbProject, dbStockRecords)
    /\ detailResponse =
        [status |-> 200,
         project |-> ProjectWithProgressData(projectData, acc, Len(processedStockRecords)),
         stockRecords |-> processedStockRecords]
    /\ listResponse = NoResponse
    /\ data = [project |-> detailResponse.project,
               stockRecords |-> detailResponse.stockRecords]
    /\ finalMetrics = FinalMetricsOf(data)
    /\ loading = FALSE
    /\ error = NULL
    /\ otherRequest = NoRequest
    /\ simInputPrice = <<"3">>
    /\ simInputShares = <<"2">>
    /\ simInputDays \in {<<"0">>, <<"2">>}
    /\ SimulationIdle
    /\ MarketIdle
    /\ ConnIdle
    /\ FetchIdle

\* the market lookup and the simulation effect, in any order
NextMarket ==
    \/ FetchMarketDataStart
    \/ FetchMarketDataFails
    \/ FetchMarketDataSucceeds
    \/ SimulationEffect
    \/ FutureScenarioEnter
    \/ FutureScenarioTradeDay
    \/ FutureScenarioReturn
    \/ FixedVolumeScenarioCall

SpecMarket == InitMarket /\ [][NextMarket]_vars

\* --------------------------------------------------------------- lib/db.ts

\* the Database object the n-th call of open() resolves to
Connection(n) == <<"connection", n>>

\* getDb with db set: if (!db) is skipped, return db
GetDbReturnsExisting ==
    \E c \in Callers :
        /\ getDbCalls[c].pc = "idle"
        /\ db # NULL
        /\ getDbCalls' = [getDbCalls EXCEPT ![c] = [pc |-> "returned", opening |-> NULL,
                                                    result |-> db]]
        /\ UNCHANGED <<dbVars, db, connectionsOpened, fetchVars, handlerVars, listResponse,
                       pageVars, simVars, otherRequest, marketVars>>

\* getDb with db null: open() is called and the caller waits for it
GetDbOpen ==
    \E c \in Callers :
        /\ getDbCalls[c].pc = "idle"
        /\ db = NULL
        /\ connectionsOpened' = connectionsOpened + 1
        /\ getDbCalls' = [getDbCalls EXCEPT ![c] = [pc |-> "opening",
                                                    opening |-> Connection(connectionsOpened'),
                                                    result |-> NULL]]
        /\ UNCHANGED <<dbVars, db, fetchVars, handlerVars, listResponse, pageVars, simVars,
                       otherRequest, marketVars>>

\* getDb after the await: db = the opened database; return db
GetDbOpened ==
    \E c \in Callers :
        /\ getDbCalls[c].pc = "opening"
        /\ db' = getDbCalls[c].opening
        /\ getDbCalls' = [getDbCalls EXCEPT ![c] = [pc |-> "returned", opening |-> NULL,
                                                    result |-> db']]
        /\ UNCHANGED <<dbVars, connectionsOpened, fetchVars, handlerVars, listResponse,
                       pageVars, simVars, otherRequest, marketVars>>

\* the calls of getDb of parallel requests, in any order
InitDb == Init /\ dbStockRecords = <<>>

NextDb ==
    \/ GetDbReturnsExisting
    \/ GetDbOpen
    \/ GetDbOpened

SpecDb == InitDb /\ [][NextDb]_vars

\* ------------------------------- the page's fetch while the route changes

\* the projectIDs a visit of the page goes through
RouteIDs == {"P1", "P2"}

\* the project of the other projectID, without stock records
OtherProject ==
    [ProjectID |-> "P2", Side |-> "SELL", Total_Shares |-> R(1), Total_Amount |-> NULL,
     Business_Days |-> R(1), Performance_Based_Fee_Rate |-> R(10),
     Fixed_Fee_Rate |-> R(50), Ticker |-> "7203", Earliest_Day_Count |-> R(1)]

\* what the project-detail handler answers for a project and its records
DetailResponseOf(project, recs) ==
    [status |-> 200,
     project |-> ProjectWithProgressData(project, AccumulatorsAfter(recs, Len(recs)),
                                         Len(recs)),
     stockRecords |-> ProcessedRecords(project, recs)]

\* await fetch(`/api/projects/${projectID}`), then res.json()
FetchedData(id) ==
    IF id = dbProject.ProjectID THEN DetailResponseOf(dbProject, dbStockRecords)
    ELSE DetailResponseOf(OtherProject, <<>>)

\* the effect on [projectID, router.isReady]: fetchProjectDetails up to its fetch
ProjectIDChanges ==
    /\ Len(fetches) < MaxFetches
    /\ \E id \in RouteIDs \ {projectID} :
        /\ projectID' = id
        /\ fetches' = Append(fetches, [projectID |-> id, pc |-> "awaiting"])
    /\ loading' = TRUE
    /\ UNCHANGED <<dbVars, connVars, handlerVars, listResponse, data, finalMetrics, error,
                   simVars, otherRequest, marketVars>>

\* fetchProjectDetails after an ok response: the try block, then finally
FetchProjectDetailsSucceeds ==
    /\ \E i \in DOMAIN fetches :
        /\ fetches[i].pc = "awaiting"
        /\ fetches' = [fetches EXCEPT ![i].pc = "succeeded"]
        /\ LET fetchedData == FetchedData(fetches[i].projectID)
           IN  data' = [project |-> fetchedData.project,
                        stockRecords |-> fetchedData.stockRecords]
    /\ finalMetrics' = FinalMetricsOf(data')
    /\ error' = NULL
    /\ loading' = FALSE
    /\ UNCHANGED <<dbVars, connVars, projectID, handlerVars, listResponse, simVars,
                   otherRequest, marketVars>>

\* fetchProjectDetails after a failed fetch or a response that is not ok: catch, finally
FetchProjectDetailsFails ==
    /\ \E i \in DOMAIN fetches :
        /\ fetches[i].pc = "awaiting"
        /\ fetches' = [fetches EXCEPT ![i].pc = "failed"]
    /\ error' = <<"Failed to fetch project details">>
    /\ loading' = FALSE
    /\ UNCHANGED <<dbVars, connVars, projectID, handlerVars, listResponse, data, finalMetrics,
                   simVars, otherRequest, marketVars>>

\* one visit of the page: the route changes while fetches are in flight
InitFetch == Init /\ Len(dbStockRecords) <= 1

NextFetch ==
    \/ ProjectIDChanges
    \/ FetchProjectDetailsSucceeds
    \/ FetchProjectDetailsFails

SpecFetch == InitFetch /\ [][NextFetch]_vars

\* ------------------------------------------------------------------- claims

\* a day-benchmark that counts as a sample: present and not zero
HasBenchmarkSample(rawRecord) ==
    rawRecord.ALL_DAY_VWAP # NULL /\ rawRecord.ALL_DAY_VWAP # R(0)

\* record j is the first of its date, among records 1..j, to carry a sample
IsFirstSampleOfDate(recs, j) ==
    /\ HasBenchmarkSample(recs[j])
    /\ \A k \in 1..(j - 1) : ~(recs[k].Date = recs[j].Date /\ HasBenchmarkSample(recs[k]))

RECURSIVE SampleSum(_, _)
SampleSum(recs, i) ==
    IF i = 0 THEN R(0)
    ELSE IF IsFirstSampleOfDate(recs, i)
         THEN RAdd(SampleSum(recs, i - 1), recs[i].ALL_DAY_VWAP)
         ELSE SampleSum(recs, i - 1)

SampleCount(recs, i) == Cardinality({j \in 1..i : IsFirstSampleOfDate(recs, j)})

\* the simple mean of the samples of the distinct dates of records 1..i
MeanOfDistinctDays(recs, i) ==
    IF SampleCount(recs, i) = 0 THEN NULL
    ELSE RDiv(SampleSum(recs, i), R(SampleCount(recs, i)))

\* C1: the cumulativeBenchmarkVWAP emitted for record i is the simple mean of the
\* day-benchmarks of the distinct dates of records[0..i], a null or zero
\* day-benchmark contributing no sample, and null exactly when there is no sample.
C1_BenchmarkIsMeanOfDistinctDays ==
    \A i \in 1..Len(processedStockRecords) :
        processedStockRecords[i].cumulativeBenchmarkVWAP
            = MeanOfDistinctDays(rawStockRecords, i)

\* C2: cumulativeFilledQty and cumulativeFilledAmount never decrease from one
\* emitted record to the next.
C2_CumulativeFillsNonDecreasing ==
    \A i \in 1..(Len(processedStockRecords) - 1) :
        /\ RLe(processedStockRecords[i].cumulativeFilledQty,
               processedStockRecords[i + 1].cumulativeFilledQty)
        /\ RLe(processedStockRecords[i].cumulativeFilledAmount,
               processedStockRecords[i + 1].cumulativeFilledAmount)

C2_Witness ==
    /\ handlerPc = "responded"
    /\ Len(processedStockRecords) = 2
    /\ RLt(processedStockRecords[1].cumulativeFilledQty,
           processedStockRecords[2].cumulativeFilledQty)
    /\ RLt(processedStockRecords[1].cumulativeFilledAmount,
           processedStockRecords[2].cumulativeFilledAmount)

\* the record the next call of the map callback takes
NextIndex == Len(processedStockRecords) + 1
MapStep == handlerPc = "map" /\ Len(processedStockRecords') = NextIndex

BenchmarkAccumulatorUnchanged ==
    /\ acc'.distinctDailyVWAPsEncountered = acc.distinctDailyVWAPsEncountered
    /\ acc'.sumOfDistinctVWAPsForBenchmark = acc.sumOfDistinctVWAPsForBenchmark
    /\ acc'.countOfDistinctDaysForBenchmark = acc.countOfDistinctDaysForBenchmark

\* the record adds its quantity and its notional to the cumulative fill totals
FillTotalsAdded ==
    LET r == rawStockRecords[NextIndex]
    IN  /\ acc'.currentCumulativeFilledQty = RAdd(acc.currentCumulativeFilledQty, r.FilledQty)
        /\ acc'.currentCumulativeFilledAmount =
            RAdd(acc.currentCumulativeFilledAmount,
                 IF r.FilledAveragePrice = NULL THEN R(0)
                 ELSE RMul(r.FilledQty, r.FilledAveragePrice))

\* C3, as claimed: a record whose date occurred earlier in the ordering never changes
\* the benchmark accumulator, whatever the earlier record's benchmark (null too),
\* and still adds to the fill totals.
C3_OnlyFirstOfDateSamples ==
    [][(MapStep /\ \E j \in 1..(NextIndex - 1) :
                        rawStockRecords[j].Date = rawStockRecords[NextIndex].Date)
        => (BenchmarkAccumulatorUnchanged /\ FillTotalsAdded)]_vars

\* C3, amended: a record changes the benchmark accumulator exactly when its own
\* day-benchmark is not null and no earlier record of its date had a non-null
\* day-benchmark; it then adds one sample. Every record adds to the fill totals.
C3_FirstNonNullOfDateSamples ==
    [][MapStep =>
        LET r == rawStockRecords[NextIndex]
            sampledBefore ==
                \E j \in 1..(NextIndex - 1) :
                    /\ rawStockRecords[j].Date = r.Date
                    /\ rawStockRecords[j].ALL_DAY_VWAP # NULL
        IN  /\ FillTotalsAdded
            /\ (sampledBefore \/ r.ALL_DAY_VWAP = NULL) => BenchmarkAccumulatorUnchanged
            /\ (~sampledBefore /\ r.ALL_DAY_VWAP # NULL) =>
                /\ acc'.countOfDistinctDaysForBenchmark
                    = acc.countOfDistinctDaysForBenchmark + 1
                /\ acc'.sumOfDistinctVWAPsForBenchmark
                    = RAdd(acc.sumOfDistinctVWAPsForBenchmark, r.ALL_DAY_VWAP)
                /\ DOMAIN acc'.distinctDailyVWAPsEncountered
                    = DOMAIN acc.distinctDailyVWAPsEncountered \cup {r.Date}]_vars

C3_Witness ==
    /\ Len(processedStockRecords) = 2
    /\ rawStockRecords[1].Date = rawStockRecords[2].Date
    /\ rawStockRecords[1].ALL_DAY_VWAP = R(3)
    /\ rawStockRecords[2].ALL_DAY_VWAP = R(0)
    /\ rawStockRecords[2].FilledQty = R(1)
    /\ rawStockRecords[2].FilledAveragePrice = R(2)
    /\ acc.countOfDistinctDaysForBenchmark = 1
    /\ acc.currentCumulativeFilledQty = RAdd(rawStockRecords[1].FilledQty, R(1))

\* C4: dailyPL is 0 when the cumulative quantity is 0, null when the quantity is
\* positive and there is no cumulative benchmark, and otherwise
\* benchmark*quantity - amount for BUY and amount - benchmark*quantity for SELL,
\* all three taken through this record inclusive.
C4_DailyPLFormula ==
    \A i \in 1..Len(processedStockRecords) :
        LET rec == processedStockRecords[i]
            qty == rec.cumulativeFilledQty
            amount == rec.cumulativeFilledAmount
            benchmark == rec.cumulativeBenchmarkVWAP
        IN  /\ qty = R(0) => rec.dailyPL = R(0)
            /\ (RLt(R(0), qty) /\ benchmark = NULL) => rec.dailyPL = NULL
            /\ (RLt(R(0), qty) /\ benchmark # NULL /\ projectData.Side = "BUY")
                => rec.dailyPL = RSub(RMul(benchmark, qty), amount)
            /\ (RLt(R(0), qty) /\ benchmark # NULL /\ projectData.Side = "SELL")
                => rec.dailyPL = RSub(amount, RMul(benchmark, qty))

C4_Witness ==
    /\ handlerPc = "responded"
    /\ Len(processedStockRecords) = 2
    /\ processedStockRecords[1].dailyPL = NULL
    /\ processedStockRecords[2].dailyPL # NULL
    /\ RLt(R(0), processedStockRecords[2].dailyPL)

OtherSide(side) == IF side = "BUY" THEN "SELL" ELSE "BUY"

\* C5: for the same fill price and the same nonzero day-benchmark, the
\* vwapPerformanceBps of side BUY and of side SELL sum to 0.
C5_BpsSignFlips ==
    \A i \in 1..Len(processedStockRecords) :
        LET raw == rawStockRecords[i]
        IN  (raw.FilledAveragePrice # NULL /\ HasBenchmarkSample(raw)) =>
                /\ processedStockRecords[i].vwapPerformanceBps # NULL
                /\ RAdd(processedStockRecords[i].vwapPerformanceBps,
                        VwapPerfBps(OtherSide(projectData.Side), raw.FilledAveragePrice,
                                    raw.ALL_DAY_VWAP)) = R(0)

C5_Witness ==
    /\ Len(processedStockRecords) >= 1
    /\ rawStockRecords[1].FilledAveragePrice = R(2)
    /\ rawStockRecords[1].ALL_DAY_VWAP = R(3)
    /\ processedStockRecords[1].vwapPerformanceBps # NULL
    /\ processedStockRecords[1].vwapPerformanceBps # R(0)

WithinPercent(x) == RLe(R(0), x) /\ RLe(x, R(100))

\* C6: daysProgress and executionProgress are within [0,100] in the answer of the
\* project-detail endpoint and in the answer of the project-list endpoint.
C6_ProgressWithinBounds ==
    /\ detailResponse.status = 200 =>
        /\ WithinPercent(detailResponse.project.daysProgress)
        /\ WithinPercent(detailResponse.project.executionProgress)
    /\ listResponse.status = 200 =>
        \A i \in DOMAIN listResponse.projects :
            /\ WithinPercent(listResponse.projects[i].daysProgress)
            /\ WithinPercent(listResponse.projects[i].executionProgress)

\* C7: the performance fee is never negative: with a fee rate present, the fee of a
\* row is max(PL, 0) * rate / 100, a null PL counting as 0, and the fee delivered
\* with the final metrics is never a negative number.
C7_PerformanceFeeNeverNegative ==
    /\ \A i \in DOMAIN PerformanceFeeColumn :
        LET pl == data.stockRecords[i].dailyPL
            rate == data.project.Performance_Based_Fee_Rate
        IN  /\ RLe(R(0), PerformanceFeeColumn[i])
            /\ rate # NULL =>
                PerformanceFeeColumn[i]
                    = RDiv(RMul(RMax(IF pl = NULL THEN R(0) ELSE pl, R(0)), rate), R(100))
    /\ (~IsNull(finalMetrics) /\ IsNum(finalMetrics.performanceFee))
        => RLe(R(0), finalMetrics.performanceFee)

C7_Witness ==
    /\ ~loading
    /\ data.project.Performance_Based_Fee_Rate = R(10)
    /\ \E i, j \in DOMAIN data.stockRecords :
        /\ data.stockRecords[i].dailyPL # NULL
        /\ RLt(data.stockRecords[i].dailyPL, R(0))
        /\ PerformanceFeeColumn[i] = R(0)
        /\ data.stockRecords[j].dailyPL # NULL
        /\ RLt(R(0), data.stockRecords[j].dailyPL)
        /\ RLt(R(0), PerformanceFeeColumn[j])

\* null or undefined
Absent(x) == x = NULL \/ x = UNDEFINED

\* C8: the finalPL delivered with the summary is the dailyPL of the last enriched
\* record, and null when there is no record.
C8_FinalPLIsLastDailyPL ==
    (~loading /\ ~IsNull(data)) =>
        LET n == Len(data.stockRecords)
            last == IF n = 0 THEN NULL ELSE data.stockRecords[n].dailyPL
        IN  IF Absent(last) THEN Absent(finalMetrics.pl) ELSE finalMetrics.pl = last


\* a call of calculateFutureScenario is under way or has returned
InFutureScenario == future.phase # "none"

\* the shares the scenario has traded so far, over the fills of the project
SimulatedVolume ==
    RSub(future.scenarioCumulativeShares, OrZero(data.project.totalFilledQty))

\* C9: in spread-to-completion mode sharesPerDay is ceil(volumeInput/d), no simulated
\* day trades more than sharesPerDay, and the scenario trades volumeInput in all;
\* volumeInput = 100 and d = 4 give sharesPerDay = 25 and a total of 100.
C9_SpreadTradesExactlyVolume ==
    InFutureScenario =>
        LET v == future.futureSharesLeft
            days == future.futureDaysTarget
            lot == future.sharesPerDay
        IN  /\ lot[2] = 1
            /\ RLe(v, RMul(lot, days))
            /\ RLt(RMul(RSub(lot, R(1)), days), v)
            /\ future.i >= 1 =>
                /\ RLt(R(0), future.sharesForThisDay)
                /\ RLe(future.sharesForThisDay, lot)
            /\ RLe(SimulatedVolume, v)
            /\ future.phase = "returned" => SimulatedVolume = v
            /\ (v = R(100) /\ days = R(4)) => lot = R(25)

C9_Witness ==
    /\ future.phase = "returned"
    /\ future.futureSharesLeft = R(100)
    /\ future.futureDaysTarget = R(4)
    /\ future.sharesPerDay = R(25)
    /\ future.i = 4
    /\ SimulatedVolume = R(100)

\* C10, as claimed: with volumeInput = 101 and d = 4 the last simulated day trades
\* the 1-share remainder.
C10_LastDayTradesOneShare ==
    (future.phase = "returned" /\ future.futureSharesLeft = R(101)
        /\ future.futureDaysTarget = R(4))
    => future.sharesForThisDay = R(1)

\* C10, amended: with volumeInput = 101 and d = 4 the per-day lot is 26, each of
\* the first three days trades 26 and the fourth trades the 23 shares left.
C10_LastDayTradesWhatIsLeft ==
    (InFutureScenario /\ future.futureSharesLeft = R(101) /\ future.futureDaysTarget = R(4))
    => /\ future.sharesPerDay = R(26)
       /\ future.i \in 1..3 =>
            /\ future.sharesForThisDay = R(26)
            /\ future.sharesRemainingForScenario = R(101 - 26 * future.i)
       /\ future.i = 4 =>
            /\ future.sharesForThisDay = R(23)
            /\ future.sharesRemainingForScenario = R(0)
       /\ future.phase = "returned" => future.i = 4

C10_Witness ==
    /\ future.phase = "returned"
    /\ future.futureSharesLeft = R(101)
    /\ future.futureDaysTarget = R(4)
    /\ future.i = 4
    /\ future.sharesForThisDay = R(23)

\* a text that parses to a number above zero
PositiveInput(x) == IsNum(x) /\ RLt(R(0), x)
AllInputsPositive ==
    PositiveInput(numFuturePrice) /\ PositiveInput(numSimShares) /\ PositiveInput(numMaxDays)

\* C11: once the simulation has run, with three positive inputs each mode holds one
\* projection for every day-count 1..horizonDays, in increasing order, and with an
\* input that is not a positive number both projection lists are empty.
C11_OneProjectionPerDayCount ==
    simPc = "done" =>
        IF AllInputsPositive
        THEN /\ Len(futureScenarios) = numMaxDays[1]
             /\ Len(fixedVolumeScenarios) = numMaxDays[1]
             /\ \A k \in 1..numMaxDays[1] :
                    /\ futureScenarios[k].days = R(k)
                    /\ fixedVolumeScenarios[k].day = R(k)
        ELSE /\ futureScenarios = <<>>
             /\ fixedVolumeScenarios = <<>>

C11_Witness ==
    /\ simPc = "done"
    /\ AllInputsPositive
    /\ numMaxDays = R(MaxSimDays)
    /\ Len(futureScenarios) = MaxSimDays
    /\ Len(fixedVolumeScenarios) = MaxSimDays
    /\ futureScenarios[MaxSimDays].days = R(MaxSimDays)

\* C12: for an empty record list the handler answers 200 with a summary that reports
\* tradedDaysCount 0, benchmarkVWAP null, daysProgress 0, executionProgress 0,
\* totalFilledQty 0, totalFilledAmount 0, averageExecutionPrice null and
\* averageDailyShares null, whatever the project.
C12_EmptyRecordListSummary ==
    (handlerPc = "responded" /\ dbStockRecords = <<>>) =>
        /\ detailResponse.status = 200
        /\ detailResponse.stockRecords = <<>>
        /\ detailResponse.project.tradedDaysCount = 0
        /\ detailResponse.project.benchmarkVWAP = NULL
        /\ detailResponse.project.daysProgress = R(0)
        /\ detailResponse.project.executionProgress = R(0)
        /\ detailResponse.project.totalFilledQty = R(0)
        /\ detailResponse.project.totalFilledAmount = R(0)
        /\ detailResponse.project.averageExecutionPrice = NULL
        /\ detailResponse.project.averageDailyShares = NULL

C12_Witness ==
    /\ handlerPc = "responded"
    /\ dbStockRecords = <<>>
    /\ detailResponse.status = 200
    /\ detailResponse.project.Side = "SELL"
    /\ detailResponse.project.Total_Shares = R(1)
    /\ detailResponse.project.Business_Days = R(1)
    /\ detailResponse.project.benchmarkVWAP = NULL

\* what one call of the handler answers when it runs alone
ResponseFor(project, recs) ==
    [status |-> 200,
     project |-> ProjectWithProgressData(project, AccumulatorsAfter(recs, Len(recs)),
                                         Len(recs)),
     stockRecords |-> ProcessedRecords(project, recs)]

\* C13: two calls of the handler, one after the other or interleaved, for the same
\* or for different projects: each call's accumulators hold what its own records
\* gave, each answers what it would answer alone, and two calls on the same project
\* and records answer the same.
C13_InvocationsAreIndependent ==
    /\ handlerPc = "map" =>
            acc = AccumulatorsAfter(rawStockRecords, Len(processedStockRecords))
    /\ otherRequest.pc = "map" =>
            otherRequest.acc = AccumulatorsAfter(otherRequest.rawStockRecords,
                                                 Len(otherRequest.processedStockRecords))
    /\ handlerPc = "responded" => detailResponse = ResponseFor(dbProject, dbStockRecords)
    /\ otherRequest.pc = "responded" =>
            otherRequest.response =
                ResponseFor(otherRequest.dbProject, otherRequest.dbStockRecords)
    /\ (/\ handlerPc = "responded"
        /\ otherRequest.pc = "responded"
        /\ otherRequest.dbProject = dbProject
        /\ otherRequest.dbStockRecords = dbStockRecords)
            => otherRequest.response = detailResponse

C13_Witness ==
    /\ handlerPc = "responded"
    /\ otherRequest.pc = "responded"
    /\ otherRequest.dbProject = dbProject
    /\ otherRequest.dbStockRecords = dbStockRecords
    /\ Len(dbStockRecords) = MaxRecords
    /\ acc.countOfDistinctDaysForBenchmark = MaxRecords
    /\ otherRequest.response = detailResponse

\* the target of the project is an amount, not a number of shares
AmountDenominated(project) ==
    /\ ~(project.Total_Shares # NULL /\ RLt(R(0), project.Total_Shares))
    /\ project.Total_Amount # NULL
    /\ RLt(R(0), project.Total_Amount)

\* the page holds no usable market price: still loading, none fetched, or not positive
NoMarketPrice ==
    \/ marketPriceLoading
    \/ currentMarketPrice = NULL
    \/ ~RLt(R(0), currentMarketPrice)

StatusTexts == {PriceLoadingText, PriceNotFetchedText, PriceInvalidText}

\* C14: for an amount target without a usable market price the remaining target
\* shares are a status text and no number, the maximum and the minimum daily pace
\* show that same status, and the summary, the records and the scenarios of the
\* page are there all the same.
C14_MissingPriceIsAStatus ==
    (AmountDenominated(data.project) /\ NoMarketPrice) =>
        LET target == RemainingTarget(data.project, marketPriceLoading, currentMarketPrice)
        IN  /\ target.effectiveRemainingTargetShares = NULL
            /\ target.sharesCalcStatusMessage \in StatusTexts
            /\ RemainingTargetSharesText(target) = target.sharesCalcStatusMessage
            /\ MaxSharesPerDayText(target, DaysUntilEarliest(data.project))
                    = target.sharesCalcStatusMessage
            /\ MinSharesPerDayText(target, RemainingBusinessDays(data.project))
                    = target.sharesCalcStatusMessage
            /\ data.project = ResponseFor(dbProject, dbStockRecords).project
            /\ data.stockRecords = ResponseFor(dbProject, dbStockRecords).stockRecords
            /\ (simPc = "done" /\ AllInputsPositive) =>
                    /\ Len(futureScenarios) = numMaxDays[1]
                    /\ Len(fixedVolumeScenarios) = numMaxDays[1]

C14_Witness ==
    /\ AmountDenominated(data.project)
    /\ marketPc = "done"
    /\ marketPriceError # NULL
    /\ currentMarketPrice = NULL
    /\ RemainingTargetSharesText(
            RemainingTarget(data.project, marketPriceLoading, currentMarketPrice))
        = PriceNotFetchedText
    /\ simPc = "done"
    /\ Len(futureScenarios) = 2

\* C15: a record whose day-benchmark is null or zero leaves the set of seen days,
\* the running sum and the running count as they were, and with them
\* tradedDaysCount and the current mean.
C15_NullOrZeroIsNoSample ==
    [][(MapStep /\ ~HasBenchmarkSample(rawStockRecords[NextIndex]))
        => /\ BenchmarkAccumulatorUnchanged
           /\ Cardinality(DOMAIN acc'.distinctDailyVWAPsEncountered)
                = Cardinality(DOMAIN acc.distinctDailyVWAPsEncountered)
           /\ CurrentBenchmarkVWAP(acc') = CurrentBenchmarkVWAP(acc)]_vars

\* C16: the vwapPerformanceBps of a record is null unless its fill price and its
\* day-benchmark are both present and not zero; a fill price of 0 gives null.
C16_BpsNeedsPriceAndBenchmark ==
    \A i \in 1..Len(processedStockRecords) :
        LET raw == rawStockRecords[i]
        IN  processedStockRecords[i].vwapPerformanceBps # NULL =>
                /\ raw.FilledAveragePrice # NULL
                /\ raw.FilledAveragePrice # R(0)
                /\ HasBenchmarkSample(raw)

\* the fixed fee accrued through record i: the rate, in percent, of the notional
\* traded in records 1..i, and 0 without a rate
AccruedFixedFee(project, recs, i) ==
    IF project.Fixed_Fee_Rate = NULL THEN R(0)
    ELSE RMul(RDiv(project.Fixed_Fee_Rate, R(100)),
              SumOf([k \in 1..i |->
                        DailyFilledAmount(recs[k].FilledQty, recs[k].FilledAveragePrice)]))

\* C17: every record the page holds carries cumulativeFixedFee, the fixed fee accrued
\* through that record, non-decreasing along the records, and the final fixed fee of
\* the page is the value of the last record.
C17_CumulativeFixedFeeAccrues ==
    ~IsNull(data) =>
        /\ \A i \in DOMAIN data.stockRecords :
                Field(data.stockRecords[i], "cumulativeFixedFee")
                    = AccruedFixedFee(data.project, rawStockRecords, i)
        /\ \A i \in DOMAIN data.stockRecords :
                i > 1 => RLe(Field(data.stockRecords[i - 1], "cumulativeFixedFee"),
                             Field(data.stockRecords[i], "cumulativeFixedFee"))
        /\ data.stockRecords # <<>> =>
                finalMetrics.fixedFee
                    = Field(data.stockRecords[Len(data.stockRecords)], "cumulativeFixedFee")

\* the benchmark list a scenario starts from
HistoricalList == ValidHistoricalVwaps(HistoricalDailyVwaps(data.stockRecords))

\* C18: in spread-to-completion mode the scenario for day-count d simulates d days:
\* when it takes its benchmark, the list holds the historical values followed by
\* exactly d copies of futurePrice, also when d exceeds volumeInput.
C18_SpreadSimulatesEveryDay ==
    future.phase = "returned" =>
        LET days == future.futureDaysTarget[1]
        IN  /\ future.i = days
            /\ future.scenarioVwaps
                    = HistoricalList \o [k \in 1..days |-> future.futurePrice]

\* the benchmark, the shares and the amount a fixed-volume scenario of n days of
\* volume v at price p must arrive at
FixedVolumeBenchmark(p, n) ==
    RDiv(RAdd(SumOf(HistoricalList), RMul(R(n), p)), R(Len(HistoricalList) + n))
FixedVolumeShares(v, n) == RAdd(OrZero(data.project.totalFilledQty), RMul(R(n), v))
FixedVolumeAmount(p, v, n) ==
    RAdd(OrZero(data.project.totalFilledAmount), RMul(RMul(R(n), v), p))

\* C19: in fixed-daily-volume mode the scenario for day-count d trades volumeInput
\* on each of d days: its total is the filled quantity plus d*volumeInput, its
\* profit and loss is that of the filled amount plus d*volumeInput*futurePrice, its
\* benchmark is the mean of the historical list and d copies of futurePrice, and
\* the total grows strictly with d.
C19_FixedVolumeTradesEveryDay ==
    \A n \in DOMAIN newFixedVolumeScenarios :
        LET scenario == newFixedVolumeScenarios[n]
            p == numFuturePrice
            v == numSimShares
        IN  /\ scenario.day = R(n)
            /\ scenario.totalSharesTraded = FixedVolumeShares(v, n)
            /\ scenario.finalBenchmark = FixedVolumeBenchmark(p, n)
            /\ scenario.finalPL =
                    IF data.project.Side = "SELL"
                    THEN RSub(FixedVolumeAmount(p, v, n),
                              RMul(FixedVolumeBenchmark(p, n), FixedVolumeShares(v, n)))
                    ELSE RSub(RMul(FixedVolumeBenchmark(p, n), FixedVolumeShares(v, n)),
                              FixedVolumeAmount(p, v, n))
            /\ n > 1 => RLt(newFixedVolumeScenarios[n - 1].totalSharesTraded,
                            scenario.totalSharesTraded)

C19_Witness ==
    /\ simPc = "done"
    /\ Len(fixedVolumeScenarios) = MaxSimDays
    /\ numSimShares = R(2)
    /\ Len(data.stockRecords) = MaxRecords
    /\ fixedVolumeScenarios[MaxSimDays].totalSharesTraded = R(MaxRecords + 2 * MaxSimDays)

\* the benchmark the handler would emit after k more records, each on a new date
\* with day-benchmark p, behind the records of the project
RollingBenchmarkAfter(project, p, k) ==
    LET count == project.tradedDaysCount
        sum == IF project.benchmarkVWAP = NULL THEN R(0)
               ELSE RMul(project.benchmarkVWAP, R(count))
    IN  RDiv(RAdd(sum, RMul(R(k), p)), R(count + k))

\* C20: the list a scenario averages holds the samples of the benchmark accumulator,
\* so that after k simulated days its benchmark is
\* (benchmarkVWAP*tradedDaysCount + k*futurePrice)/(tradedDaysCount + k), in both
\* modes and for every record sequence.
C20_ScenarioBenchmarkIsRollingBenchmark ==
    /\ \A n \in DOMAIN newFixedVolumeScenarios :
            newFixedVolumeScenarios[n].finalBenchmark
                = RollingBenchmarkAfter(data.project, numFuturePrice, n)
    /\ future.phase = "returned" =>
            FinalBenchmark(future.scenarioVwaps, future.futurePrice)
                = RollingBenchmarkAfter(data.project, future.futurePrice, future.i)

\* the profit and loss of a side for a benchmark, a quantity and an amount
SidePL(side, benchmark, qty, amount) ==
    IF side = "BUY" THEN RSub(RMul(benchmark, qty), amount)
    ELSE RSub(amount, RMul(benchmark, qty))

\* a scenario's profit and loss follows the convention of dailyPL
SameConventionAsDailyPL(finalPL, benchmark, qty, amount) ==
    /\ finalPL = SidePL(data.project.Side, benchmark, qty, amount)
    /\ finalPL = DailyPL(data.project.Side, benchmark, qty, amount)
    /\ ScenarioPL(OtherSide(data.project.Side), benchmark, qty, amount) = RNeg(finalPL)

\* C21: in both scenario modes the projected profit and loss is what the dailyPL
\* formula of the side gives for the scenario's benchmark, quantity and amount
\* (BUY benchmark*qty - amount, SELL amount - benchmark*qty), and the other side's
\* result for the same three values is its negative.
C21_ScenarioPLConvention ==
    /\ future.phase = "returned" =>
            LET scenario == newFutureScenarios[Len(newFutureScenarios)]
            IN  SameConventionAsDailyPL(scenario.finalPL, scenario.finalBenchmark,
                                        future.scenarioCumulativeShares,
                                        future.scenarioCumulativeAmount)
    /\ \A n \in DOMAIN newFixedVolumeScenarios :
            LET scenario == newFixedVolumeScenarios[n]
            IN  SameConventionAsDailyPL(scenario.finalPL, scenario.finalBenchmark,
                                        FixedVolumeShares(numSimShares, n),
                                        FixedVolumeAmount(numFuturePrice, numSimShares, n))

C21_Witness ==
    /\ simPc = "done"
    /\ data.project.Side = "SELL"
    /\ Len(futureScenarios) = MaxSimDays
    /\ Len(fixedVolumeScenarios) = MaxSimDays
    /\ RLt(R(0), futureScenarios[1].finalPL)
    /\ RLt(R(0), fixedVolumeScenarios[MaxSimDays].finalPL)

\* the three operands are present and the product of benchmark and quantity is not 0
BpsDefined(pl, benchmark, qty) ==
    /\ pl # NULL
    /\ benchmark # NULL
    /\ qty # NULL
    /\ RMul(benchmark, qty) # R(0)
BpsValue(pl, benchmark, qty) == RMul(RDiv(pl, RMul(benchmark, qty)), R(10000))

\* C22: for the profit and loss, benchmark and cumulative quantity of every row the
\* page holds, the bps figure is absent ('-' in the row, null from
\* calculatePLInBasisPoints) when one of the three is null or benchmark*quantity
\* is 0, and is PL/(benchmark*quantity)*10000 otherwise; calculatePriceVsBenchmarkPct
\* of the row's price and benchmark is null when the benchmark is null or 0 and
\* (price/benchmark - 1)*100 otherwise. No division has a zero divisor.
C22_BpsNullOrQuotient ==
    ~IsNull(data) =>
        \A k \in DOMAIN data.stockRecords :
            LET record == data.stockRecords[k]
                pl == record.dailyPL
                benchmark == record.cumulativeBenchmarkVWAP
                qty == record.cumulativeFilledQty
                price == record.FilledAveragePrice
            IN  /\ PlBpsDisplay(record) =
                        IF BpsDefined(pl, benchmark, qty)
                        THEN FormatNumber1(BpsValue(pl, benchmark, qty)) ELSE DashText
                /\ CalculatePLInBasisPoints(pl, benchmark, qty) =
                        IF BpsDefined(pl, benchmark, qty)
                        THEN BpsValue(pl, benchmark, qty) ELSE NULL
                /\ CalculatePriceVsBenchmarkPct(price, benchmark) =
                        IF benchmark = NULL \/ benchmark = R(0) THEN NULL
                        ELSE RMul(RSub(RDiv(price, benchmark), R(1)), R(100))

C22_Witness ==
    /\ ~IsNull(data)
    /\ Len(data.stockRecords) = 2
    /\ data.stockRecords[1].cumulativeBenchmarkVWAP = R(3)
    /\ data.stockRecords[1].cumulativeFilledQty = R(0)
    /\ data.stockRecords[1].dailyPL = R(0)
    /\ PlBpsDisplay(data.stockRecords[1]) = DashText
    /\ PlBpsDisplay(data.stockRecords[2]) = <<"number/10", 33333>>

\* the remaining target, the day counts and the pace figures the page shows
PageTarget == RemainingTarget(data.project, marketPriceLoading, currentMarketPrice)
PageDaysUntilEarliest == DaysUntilEarliest(data.project)
PageRemainingBusinessDays == RemainingBusinessDays(data.project)
PageMaxText == MaxSharesPerDayText(PageTarget, PageDaysUntilEarliest)
PageMinText == MinSharesPerDayText(PageTarget, PageRemainingBusinessDays)
PageBreakdown ==
    DailySharesBreakdown(PageTarget, PageDaysUntilEarliest, PageRemainingBusinessDays)

ShareDenominated(project) ==
    project.Total_Shares # NULL /\ RLt(R(0), project.Total_Shares)
RemainingSharesOf(project) ==
    RMax(R(0), RSub(project.Total_Shares, OrZero(project.totalFilledQty)))
RemainingAmountOf(project) ==
    RMax(R(0), RSub(project.Total_Amount, OrZero(project.totalFilledAmount)))
UsableMarketPrice ==
    /\ ~marketPriceLoading
    /\ currentMarketPrice # NULL
    /\ RLt(R(0), currentMarketPrice)

\* C23 as stated: the remaining target shares are never negative; with a share
\* target they are max(0, totalShares - totalFilledQty); with an amount target and
\* a positive current price they are exactly remainingAmount/currentPrice.
C23_RemainingSharesFollowTargetKind ==
    /\ PageTarget.effectiveRemainingTargetShares # NULL =>
            RLe(R(0), PageTarget.effectiveRemainingTargetShares)
    /\ ShareDenominated(data.project) =>
            PageTarget.effectiveRemainingTargetShares = RemainingSharesOf(data.project)
    /\ (AmountDenominated(data.project) /\ UsableMarketPrice) =>
            PageTarget.effectiveRemainingTargetShares
                = RDiv(RemainingAmountOf(data.project), currentMarketPrice)

\* C23: the remaining target shares are never negative; with a share target they
\* are max(0, totalShares - totalFilledQty); with an amount target and a positive
\* current price they are remainingAmount/currentPrice, except that a quotient
\* below 1 of a positive remaining amount is reported as 0 with the status
\* "remainder too small".
C23_RemainingSharesOrTooSmall ==
    /\ PageTarget.effectiveRemainingTargetShares # NULL =>
            RLe(R(0), PageTarget.effectiveRemainingTargetShares)
    /\ ShareDenominated(data.project) =>
            PageTarget.effectiveRemainingTargetShares = RemainingSharesOf(data.project)
    /\ (AmountDenominated(data.project) /\ UsableMarketPrice) =>
            LET remainingAmount == RemainingAmountOf(data.project)
                quotient == RDiv(remainingAmount, currentMarketPrice)
            IN  IF RLt(quotient, R(1)) /\ RLt(R(0), remainingAmount)
                THEN /\ PageTarget.effectiveRemainingTargetShares = R(0)
                     /\ PageTarget.sharesCalcStatusMessage = RemainderTooSmallText
                ELSE /\ PageTarget.effectiveRemainingTargetShares = quotient
                     /\ PageTarget.sharesCalcStatusMessage = NULL

C23_Witness ==
    /\ AmountDenominated(data.project)
    /\ marketPc = "done"
    /\ currentMarketPrice = R(4)
    /\ RemainingAmountOf(data.project) = R(2)
    /\ PageTarget.effectiveRemainingTargetShares = R(0)
    /\ PageTarget.sharesCalcStatusMessage = RemainderTooSmallText

UnsetTarget(project) == project.Total_Shares = NULL /\ project.Total_Amount = NULL
AnyFill(project) ==
    \/ RLt(R(0), OrZero(project.totalFilledQty))
    \/ RLt(R(0), OrZero(project.totalFilledAmount))

\* C24: with neither a share target nor an amount target, the remaining target
\* shares are the status "target not set" (shown by the two pace figures too) while
\* nothing has been filled, and the number 0 once a quantity or an amount has been
\* filled.
C24_UnsetTargetStatusOrZero ==
    UnsetTarget(data.project) =>
        IF AnyFill(data.project)
        THEN /\ PageTarget.effectiveRemainingTargetShares = R(0)
             /\ PageTarget.sharesCalcStatusMessage = NULL
             /\ RemainingTargetSharesText(PageTarget) = <<"number", 0>>
        ELSE /\ PageTarget.effectiveRemainingTargetShares = NULL
             /\ PageTarget.sharesCalcStatusMessage = TargetNotSetText
             /\ RemainingTargetSharesText(PageTarget) = TargetNotSetText
             /\ PageMaxText = TargetNotSetText
             /\ PageMinText = TargetNotSetText

C24_Witness ==
    /\ UnsetTarget(data.project)
    /\ Len(data.stockRecords) = 2
    /\ data.project.totalFilledQty = R(2)
    /\ simPc = "done"
    /\ RemainingTargetSharesText(PageTarget) = <<"number", 0>>

DaysLeft(days) == days # NULL /\ RLt(R(0), days)

\* the text is a pace in shares a day; "0 shares/day (completed)" counts as the pace
\* 0 while days are left and as a status when none are
ShowsPace(text, days) == text[1] = "shares/day" \/ (text = CompletedText /\ DaysLeft(days))

\* C25 as stated: the maximum pace is the number remaining/daysUntilEarliest
\* exactly when daysUntilEarliest > 0, the minimum pace the number
\* remaining/remainingBusinessDays exactly when remainingBusinessDays > 0, and a
\* status otherwise.
C25_PaceIsNumberWhenDaysLeft ==
    /\ ShowsPace(PageMaxText, PageDaysUntilEarliest) <=> DaysLeft(PageDaysUntilEarliest)
    /\ ShowsPace(PageMinText, PageRemainingBusinessDays)
            <=> DaysLeft(PageRemainingBusinessDays)

\* C25: while the remaining target shares are a positive number, the maximum pace
\* is remaining/daysUntilEarliest (rounded to a whole number) exactly when
\* daysUntilEarliest > 0, "earliest day passed" when it is <= 0 and N/A when it is
\* unknown, and the minimum pace likewise with remainingBusinessDays and "no days
\* left"; remaining shares of 0 show "completed" in both whatever the day counts,
\* and a status in place of the remaining shares is shown in both.
C25_PaceByRemainingAndDays ==
    LET remaining == PageTarget.effectiveRemainingTargetShares
    IN  IF remaining = NULL
        THEN /\ PageMaxText = PageTarget.sharesCalcStatusMessage
             /\ PageMinText = PageTarget.sharesCalcStatusMessage
             /\ PageTarget.sharesCalcStatusMessage # NULL
        ELSE IF remaining = R(0)
        THEN PageMaxText = CompletedText /\ PageMinText = CompletedText
        ELSE /\ PageMaxText =
                    IF PageDaysUntilEarliest = NULL THEN NotAvailableText
                    ELSE IF RLt(R(0), PageDaysUntilEarliest)
                    THEN <<"shares/day", Round(RDiv(remaining, PageDaysUntilEarliest))>>
                    ELSE EarliestPassedText
             /\ PageMinText =
                    IF PageRemainingBusinessDays = NULL THEN NotAvailableText
                    ELSE IF RLt(R(0), PageRemainingBusinessDays)
                    THEN <<"shares/day", Round(RDiv(remaining, PageRemainingBusinessDays))>>
                    ELSE NoDaysLeftText

C25_Witness ==
    /\ marketPc = "done"
    /\ PageTarget.effectiveRemainingTargetShares = R(2)
    /\ PageDaysUntilEarliest = R(3)
    /\ PageMaxText = <<"shares/day", 1>>
    /\ PageRemainingBusinessDays = R(0)
    /\ PageMinText = NoDaysLeftText

DaysInOrder ==
    /\ DaysLeft(PageDaysUntilEarliest)
    /\ DaysLeft(PageRemainingBusinessDays)
    /\ RLe(PageDaysUntilEarliest, PageRemainingBusinessDays)

\* C26 as stated: the day-by-day table is produced exactly when
\* daysUntilEarliest > 0, remainingBusinessDays > 0 and
\* daysUntilEarliest <= remainingBusinessDays.
C26_TableWhenDaysInOrder == (PageBreakdown # <<>>) <=> DaysInOrder

\* C26: the day-by-day table is produced exactly when the remaining target shares
\* are a positive number, daysUntilEarliest > 0, remainingBusinessDays > 0 and
\* daysUntilEarliest <= remainingBusinessDays; it then has one row for each d from
\* daysUntilEarliest to remainingBusinessDays in increasing order with pace
\* remaining/d, the first row shown as the maximum pace and the last as the minimum.
C26_TableWhenSharesRemain ==
    LET remaining == PageTarget.effectiveRemainingTargetShares
        table == PageBreakdown
    IN  /\ (table # <<>>) <=> (remaining # NULL /\ RLt(R(0), remaining) /\ DaysInOrder)
        /\ table # <<>> =>
            /\ R(Len(table)) =
                    RAdd(RSub(PageRemainingBusinessDays, PageDaysUntilEarliest), R(1))
            /\ \A i \in DOMAIN table :
                    /\ table[i].dayCount = RAdd(PageDaysUntilEarliest, R(i - 1))
                    /\ table[i].sharesPerDay = RDiv(remaining, table[i].dayCount)
            /\ BreakdownItemText(table[1]) = PageMaxText
            /\ BreakdownItemText(table[Len(table)]) = PageMinText

C26_Witness ==
    /\ simPc = "done"
    /\ Len(PageBreakdown) = 2
    /\ PageBreakdown[1].dayCount = R(2)
    /\ PageBreakdown[2].sharesPerDay = Norm(1, 3)

\* the sum of the day-benchmarks kept in the map of seen days
RECURSIVE SeenDaysSum(_, _)
SeenDaysSum(seen, days) ==
    IF days = {} THEN R(0)
    ELSE LET day == CHOOSE x \in days : TRUE
         IN  RAdd(seen[day], SeenDaysSum(seen, days \ {day}))

\* C27: after every processed record the count of distinct days is the size of the
\* map of seen days and the running sum is the sum of the map's values; the
\* response's tradedDaysCount is that count, and for a non-empty list its
\* benchmarkVWAP, totalFilledQty and totalFilledAmount are the last record's
\* cumulativeBenchmarkVWAP, cumulativeFilledQty and cumulativeFilledAmount.
C27_AccumulatorsConsistent ==
    /\ acc.countOfDistinctDaysForBenchmark
            = Cardinality(DOMAIN acc.distinctDailyVWAPsEncountered)
    /\ acc.sumOfDistinctVWAPsForBenchmark
            = SeenDaysSum(acc.distinctDailyVWAPsEncountered,
                          DOMAIN acc.distinctDailyVWAPsEncountered)
    /\ handlerPc = "responded" =>
            /\ detailResponse.project.tradedDaysCount = acc.countOfDistinctDaysForBenchmark
            /\ detailResponse.stockRecords # <<>> =>
                    LET last == detailResponse.stockRecords[Len(detailResponse.stockRecords)]
                    IN  /\ detailResponse.project.benchmarkVWAP = last.cumulativeBenchmarkVWAP
                        /\ detailResponse.project.totalFilledQty = last.cumulativeFilledQty
                        /\ detailResponse.project.totalFilledAmount
                                = last.cumulativeFilledAmount

C27_Witness ==
    /\ handlerPc = "responded"
    /\ Len(detailResponse.stockRecords) = 2
    /\ rawStockRecords[1].Date = rawStockRecords[2].Date
    /\ rawStockRecords[1].ALL_DAY_VWAP = R(3)
    /\ rawStockRecords[2].ALL_DAY_VWAP = R(0)
    /\ detailResponse.project.tradedDaysCount = 1
    /\ detailResponse.project.benchmarkVWAP = R(3)
    /\ detailResponse.project.totalFilledQty = R(2)

\* C28: for the same project and the same stock records the entry of the project
\* list carries the tradedDaysCount, the daysProgress and the executionProgress
\* that the detail endpoint answers.
C28_ListAgreesWithDetail ==
    listResponse # NoResponse =>
        LET entry == listResponse.projects[1]
            detail == ResponseFor(dbProject, dbStockRecords).project
        IN  /\ entry.tradedDaysCount = detail.tradedDaysCount
            /\ entry.daysProgress = detail.daysProgress
            /\ entry.executionProgress = detail.executionProgress

\* C29: in every interleaving of parallel calls of getDb, open() is called at most
\* once and all callers that have returned hold the same connection.
C29_GetDbIsSingleton ==
    /\ connectionsOpened <= 1
    /\ \A c1, c2 \in Callers :
            (getDbCalls[c1].pc = "returned" /\ getDbCalls[c2].pc = "returned")
                => getDbCalls[c1].result = getDbCalls[c2].result

\* every fetch that was started has settled
AllFetchesSettled ==
    /\ fetches # <<>>
    /\ \A i \in DOMAIN fetches : fetches[i].pc # "awaiting"

\* C30: once all started fetches have settled, loading is false and, the fetch of
\* the current projectID having succeeded, data and finalMetrics are those of the
\* current projectID.
C30_LatestProjectIsDisplayed ==
    AllFetchesSettled =>
        /\ loading = FALSE
        /\ fetches[Len(fetches)].pc = "succeeded" =>
                /\ ~IsNull(data)
                /\ data.project.ProjectID = projectID
                /\ finalMetrics = FinalMetricsOf(FetchedData(projectID))


====
